---- MODULE Spec2Model ----
(***************************************************************************)
(* Job queue (table admin), worker pool and device deletion/expiry of      *)
(* netdisco-rust: src/db/queries.rs, src/backend/manager.rs,               *)
(* src/backend/mod.rs, src/worker/expire.rs, src/bin/do_cmd.rs.            *)
(*                                                                         *)
(* Every SQL statement runs in its own (autocommit) transaction except     *)
(* delete_device, which is one explicit multi-statement transaction.  A    *)
(* statement that has taken a row lock and has not committed yet is a      *)
(* separate state: that is what FOR UPDATE SKIP LOCKED observes.           *)
(***************************************************************************)
EXTENDS Integers, Sequences, FiniteSets, TLC

\* ---- bounds of the model ------------------------------------------------
NumWorkers == 2      \* worker tasks spawned by start_backend
MaxJobs    == 2      \* values the job id sequence may hand out
MaxTime    == 1      \* ticks of the database clock NOW()
expire_jobs == 0     \* configured job age (config.expire_jobs), in ticks

Workers  == 1..NumWorkers
Cli      == 0                       \* the do_cmd process (netdisco-do delete)
Deleters == {Cli} \cup Workers      \* who may run delete_device
JobIds   == 1..MaxJobs

NULL   == "NULL"     \* SQL NULL / Option::None of a text or inet column
NoTime == -1         \* SQL NULL / Option::None of a timestamp column

Devices == {"10.0.0.1"}
\* (action, device) of the enqueue_job calls made in this model
EnqueueRequests ==
    {<<"discover", "10.0.0.1">>, <<"delete", "10.0.0.1">>, <<"expire", NULL>>}

VARIABLES
    now,            \* database clock
    admin,          \* table admin: job id -> committed row
    admin_job_seq,  \* last value handed out by the job id sequence
    inflight,       \* INSERTs executed but not yet committed
    pc,             \* position of each worker in run_worker
    claim,          \* row locked by a worker's running dequeue statement
    job,            \* the worker's local `job` (row returned by dequeue_job)
    result,         \* the worker's local `result` of timeout(execute_job)
    tx,             \* open delete_device transaction of each deleter
    \* history variables (observations used by the properties)
    dequeued,       \* job id -> number of dequeue_job calls that returned it
    enqueued,       \* job id -> number of enqueue_job calls that returned it
    calls,          \* complete_job calls a worker made for its current claim
    runs,           \* routine executions a worker started for its current claim
    running,        \* routine futures alive: <<worker, job id>>
    open,           \* claimed jobs whose complete_job call is still to come
    lastdb          \* outcome of the worker's latest database call

queueVars == <<now, admin, admin_job_seq, inflight, pc, claim, job, result, tx,
               dequeued, enqueued, calls, runs, running, open, lastdb>>

NoJob    == [job |-> 0, action |-> NULL, device |-> NULL]
NoClaim  == [job |-> 0, at |-> NoTime]
NoResult == [res |-> NULL, log |-> NULL]
NoTx     == [open |-> FALSE, rows |-> {}]

\* ---- the queue statements (src/db/queries.rs) ----------------------------

\* Rows locked by a statement or transaction that has not committed yet.
ClaimLocks == {claim[w].job : w \in {v \in Workers : pc[v] = "claiming"}}
TxLocks    == UNION {tx[d].rows : d \in Deleters}
LockedRows == ClaimLocks \cup TxLocks

\* nextval of the job id sequence behind column admin.job.
nextval(seq) == seq + 1

\* Mutant of InsertRow: the INSERT also stamps started.
InsertRow_Started(action, device, entered) ==
    [action |-> action, device |-> device, status |-> "queued",
     entered |-> entered, started |-> entered, finished |-> NoTime,
     log |-> NULL]

\* enqueue_job: the row INSERT INTO admin (...) VALUES (..., 'queued', NOW()).
InsertRow(action, device, entered) ==
    [action |-> action, device |-> device, status |-> "queued",
     entered |-> entered, started |-> NoTime, finished |-> NoTime,
     log |-> NULL]

\* enqueue_job: the table after the INSERT committed.
InsertInto(rows, id, row) ==
    [j \in DOMAIN rows \cup {id} |-> IF j = id THEN row ELSE rows[j]]

\* Mutant of SelectQueuedSkipLocked: a plain SELECT (no FOR UPDATE), which
\* takes no notice of rows another statement is claiming.
SelectQueued_NoLock(rows, locked) ==
    LET cand == {j \in DOMAIN rows : rows[j].status = "queued"}
    IN  IF cand = {} THEN {0}
        ELSE {j \in cand : \A k \in cand : rows[j].entered <= rows[k].entered}

\* Mutant of SelectQueuedSkipLocked: FOR UPDATE without SKIP LOCKED, which
\* waits when the oldest queued row is locked.
SelectQueued_Wait(rows, locked) ==
    LET cand == {j \in DOMAIN rows : rows[j].status = "queued"}
        first == {j \in cand : \A k \in cand : rows[j].entered <= rows[k].entered}
    IN  IF cand = {} THEN {0} ELSE first \ locked

\* dequeue_job: SELECT job FROM admin WHERE status = 'queued'
\*              ORDER BY entered ASC LIMIT 1 FOR UPDATE SKIP LOCKED.
\* The set of rows the subselect may return (ties in entered are
\* unordered); {0} stands for "no row"; the empty set would mean the
\* statement waits.
SelectQueuedSkipLocked(rows, locked) ==
    LET cand == {j \in DOMAIN rows : rows[j].status = "queued" /\ j \notin locked}
    IN  IF cand = {} THEN {0}
        ELSE {j \in cand : \A k \in cand : rows[j].entered <= rows[k].entered}

\* Mutant of UpdateRunning: the UPDATE forgets started = NOW().
UpdateRunning_NoStart(row, at) == [row EXCEPT !.status = "running"]

\* dequeue_job: UPDATE admin SET status = 'running', started = NOW().
UpdateRunning(row, at) == [row EXCEPT !.status = "running", !.started = at]

\* complete_job: UPDATE admin SET status = $2, log = $3, finished = NOW()
\*               WHERE job = $1  (no row with that id: nothing changes).
UpdateComplete(rows, id, status, log, at) ==
    IF id \in DOMAIN rows
    THEN [rows EXCEPT ![id] = [@ EXCEPT !.status = status, !.log = log,
                                        !.finished = at]]
    ELSE rows

\* delete_device: DELETE FROM admin WHERE device = $1.
DeleteAdminWhereDevice(rows, ip) == {j \in DOMAIN rows : rows[j].device = ip}

\* expire: DELETE FROM admin WHERE finished IS NOT NULL
\*                             AND finished < NOW() - $1::interval.
ExpireJobsWhere(rows, at, age) ==
    {j \in DOMAIN rows : rows[j].finished # NoTime /\ rows[j].finished < at - age}

\* the table without the rows of a committed DELETE
Without(rows, gone) == [j \in DOMAIN rows \ gone |-> rows[j]]

\* ---- run_worker / execute_job (src/backend/manager.rs) -------------------

\* execute_job under tokio::time::timeout: the results the dispatch of
\* (action, device) can give.  res is "OkOk" (routine returned Ok(log)),
\* "OkErr" (routine returned Err(e), log is e.to_string()) or "Elapsed".
\* A routine that never awaits cannot hit the deadline.
execute_job(action, device) ==
    LET ok(t)  == [res |-> "OkOk",  log |-> t]
        err(t) == [res |-> "OkErr", log |-> t]
        elapsed == [res |-> "Elapsed", log |-> NULL]
    IN CASE action = "discover" ->
              IF device = NULL THEN {err("discover requires a device IP")}
              ELSE {ok("Discovered {} with {} interfaces"),
                    err("Device {} is not permitted by discover ACL"), elapsed}
         [] action = "discoverall" ->
              {ok("DiscoverAll complete: {}/{} succeeded, {} failed"),
               err("database error"), elapsed}
         [] action = "macsuck" ->
              IF device = NULL THEN {err("macsuck requires a device IP")}
              ELSE {ok("Macsuck {}: stored {} of {} MACs"),
                    err("Device {} is not permitted by macsuck ACL"), elapsed}
         [] action = "macwalk" ->
              {ok("Macwalk complete: {}/{} devices"), err("database error"), elapsed}
         [] action = "arpnip" ->
              IF device = NULL THEN {err("arpnip requires a device IP")}
              ELSE {ok("Arpnip {}: stored {} of {} entries"),
                    err("Device {} is not permitted by arpnip ACL"), elapsed}
         [] action = "arpwalk" ->
              {ok("Arpwalk complete: {}/{} devices"), err("database error"), elapsed}
         [] action = "nbtstat" -> {err("nbtstat is not yet implemented")}
         [] action = "nbtwalk" -> {err("nbtwalk is not yet implemented")}
         [] action = "expire" ->
              {ok("Expired {} devices older than {} days; ..."),
               err("database error"), elapsed}
         [] action = "delete" ->
              IF device = NULL THEN {err("delete requires a device IP")}
              ELSE {ok("Deleted device {}"), err("database error"), elapsed}
         [] action \in {"portcontrol", "portname", "portvlan", "power"} ->
              IF device = NULL THEN {err("No device IP")}
              ELSE {ok("Port {} on {} ... (DB only)"),
                    err("No port specified"), elapsed}
         [] action \in {"graph", "show", "stats", "linter"} ->
              {ok("Action '{}' completed (placeholder)")}
         [] OTHER -> {err("Unknown action: {}")}

\* Mutant of CompleteArgs: a failed routine is put back on the queue.
CompleteArgs_Requeue(r) ==
    CASE r.res = "OkOk"    -> << [status |-> "done",   log |-> r.log] >>
      [] r.res = "OkErr"   -> << [status |-> "queued", log |-> r.log] >>
      [] r.res = "Elapsed" -> << [status |-> "error",  log |-> "Job timed out"] >>

\* Mutant of CompleteArgs: the deadline arm makes no complete_job call.
CompleteArgs_NoTimeoutCall(r) ==
    CASE r.res = "OkOk"    -> << [status |-> "done",  log |-> r.log] >>
      [] r.res = "OkErr"   -> << [status |-> "error", log |-> r.log] >>
      [] r.res = "Elapsed" -> << >>

\* run_worker, match result: the (status, log) of the complete_job calls
\* the worker makes for a result, in order.
CompleteArgs(r) ==
    CASE r.res = "OkOk"    -> << [status |-> "done",  log |-> r.log] >>
      [] r.res = "OkErr"   -> << [status |-> "error", log |-> r.log] >>
      [] r.res = "Elapsed" -> << [status |-> "error", log |-> "Job timed out"] >>

\* run_worker, match db::dequeue_job(..): where the loop goes next.
AfterDequeue(r) ==
    CASE r = "Some" -> "exec"
      [] r = "None" -> "sleep"
      [] r = "Err"  -> "sleep"

\* Mutant of AfterComplete: `db::complete_job(..).await?` returns the error
\* from run_worker.
AfterComplete_Propagate(r) ==
    CASE r = "Ok"  -> "iter_end"
      [] r = "Err" -> "exited"

\* run_worker, `if let Err(e) = db::complete_job(..)`: where the loop goes
\* after the call returned Ok (r = "Ok") or Err (r = "Err").
AfterComplete(r) ==
    CASE r = "Ok"  -> "iter_end"
      [] r = "Err" -> "iter_end"

\* Mutant of AfterTimeout: the routine runs as a detached task that the
\* deadline does not stop.
AfterTimeout_Detached(alive, w, r) ==
    IF r.res = "Elapsed" THEN alive ELSE {f \in alive : f[1] # w}

\* tokio::time::timeout: the routine future is owned by the timeout future
\* and is gone when it resolves, whatever the result.
AfterTimeout(alive, w, r) == {f \in alive : f[1] # w}

\* ---- SNMP client: state (src/snmp/client.rs) -----------------------------

MaxComp     == 1     \* OID components are 0..MaxComp
MaxOidLen   == 4     \* OIDs have 2..MaxOidLen components
snmpretries == 1     \* SnmpClient.retries is 0..snmpretries

VARIABLES
    wpc,            \* position in SnmpClient::walk ("caller": not in a walk)
    retries,        \* SnmpClient.retries of the client used
    base_oid,       \* walk: argument
    current_oid,    \* walk: local current_oid
    results,        \* walk: local results
    attempt,        \* send_receive: loop variable
    walk_ret,       \* what the latest walk call returned
    \* history variables
    sent,           \* socket.send calls of the current exchange that succeeded
    recv_errs,      \* kinds of the receive errors of the current exchange
    exchanges,      \* get_next calls of the current walk
    received,       \* the (oid, value) pairs get_next returned Ok in this walk
    last_exchange   \* what the latest send_receive / get_next returned

snmpVars == <<wpc, retries, base_oid, current_oid, results, attempt, walk_ret,
              sent, recv_errs, exchanges, received, last_exchange>>


NoRet      == [ok |-> FALSE, value |-> << >>]
NoExchange == [ok |-> FALSE, err |-> NULL]

SnmpInit ==
    /\ wpc = "caller"
    /\ retries = 0
    /\ base_oid = << >>
    /\ current_oid = << >>
    /\ results = << >>
    /\ attempt = 0
    /\ walk_ret = NoRet
    /\ sent = 0
    /\ recv_errs = << >>
    /\ exchanges = 0
    /\ received = << >>
    /\ last_exchange = NoExchange

\* ---- scheduler: state (src/backend/scheduler.rs) -------------------------

Phases  == 2         \* clock instants per minute
MaxLate == 1         \* a tick wakes up 0..MaxLate instants after its deadline

MinutesPerHour == 60
HoursPerDay    == 24
DayLen == HoursPerDay * MinutesPerHour * Phases   \* instants of one day

VARIABLES
    clock,          \* wall clock, in instants since 00:00 of the day watched
    deadline,       \* next deadline of interval(60 s)
    rule,           \* position in the loop body: 0 = in tick.tick().await,
                    \* i = about to make the enqueue_job call of rule i
    local_now,      \* the `now` read at the latest tick
    \* history variables
    tick_calls,     \* enqueue_job calls of the current tick: actions, in order
    day_calls,      \* enqueue_job calls on ticks of the day watched, per action
    last_arpwalk,   \* `now` of the latest arpwalk enqueue call, in minutes
    last_enq,       \* outcome of the latest enqueue_job call of this tick
    dup_call        \* that call was made with a job of its action in the queue

schedVars == <<clock, deadline, rule, local_now, tick_calls,
               day_calls, last_arpwalk, last_enq, dup_call>>

NoCall == -1
NotStarted == -(Phases + 1)     \* clock and deadline before run_scheduler runs

SchedInit ==
    /\ clock = NotStarted
    /\ deadline = NotStarted
    /\ rule = 0
    /\ local_now = NotStarted
    /\ tick_calls = << >>
    /\ day_calls = [discoverall |-> 0, expire |-> 0]
    /\ last_arpwalk = NoCall
    /\ last_enq = "none"
    /\ dup_call = FALSE

\* ---- execute_job of a single-device job: state (src/backend/manager.rs) --

MaxAclLen       == 2     \* entries in an ACL list of the configuration
MaxSnmpRequests == 2     \* SNMP requests a routine sends

VARIABLES
    ej_pc,          \* position in execute_job and the routine it calls
    ej_job,         \* the job: action and device
    ej_result,      \* what timeout(execute_job) gave run_worker
    ej_call,        \* the complete_job call run_worker made for it
    acl_in,         \* arguments of the latest is_permitted call
    acl_out,        \* its result: "permit", "reject" ("none": not called)
    \* history variables
    snmp_requests,  \* SNMP requests sent for this job
    rows_written    \* tables the routine has written or deleted rows of

jobVars == <<ej_pc, ej_job, ej_result, ej_call, acl_in, acl_out,
             snmp_requests, rows_written>>

NoAcl  == [ip |-> NULL, only |-> << >>, no |-> << >>]
NoCallArgs == [status |-> NULL, log |-> NULL]

JobInit ==
    /\ ej_pc = "idle"
    /\ ej_job = NoJob
    /\ ej_result = NoResult
    /\ ej_call = NoCallArgs
    /\ acl_in = NoAcl
    /\ acl_out = "none"
    /\ snmp_requests = 0
    /\ rows_written = {}

\* ---- decoding of a response datagram: state (src/snmp/client.rs) ----------

MaxIntWidth == 2     \* content bytes of the error-status INTEGER
MaxVarbinds == 2     \* varbinds in a response

VARIABLES
    ber_pc,         \* "idle", "received" (datagram in the buffer), "decoded"
    datagram,       \* the bytes socket.recv put in the buffer
    decoded,        \* what parse_snmp_response returned for them
    \* history variables: what the agent put in the response
    agent_status,   \* the value of its error-status
    agent_width,    \* the number of content bytes it encoded that value in
    wire            \* how the datagram was laid out and cut on its way

berVars == <<ber_pc, datagram, decoded, agent_status, agent_width, wire>>

\* wire of a datagram that is an agent's whole response
NoWire == [kind |-> "response", tags |-> << >>, vbs |-> << >>, cut |-> 0]

NoDecode == [ok |-> FALSE, err |-> NULL, error_status |-> 0,
             error_name |-> NULL, varbinds |-> << >>]

BerInit ==
    /\ ber_pc = "idle"
    /\ datagram = << >>
    /\ decoded = NoDecode
    /\ agent_status = 0
    /\ agent_width = 0
    /\ wire = NoWire

\* ---- building of requests, lengths and values: state (src/snmp/client.rs) --

MaxArcs     == 4       \* arcs of the OID of a request
MaxValueLen == 4       \* content bytes of the values read with every byte tried
MaxLength   == 65535   \* the longest datagram: vec![0u8; 65535]

VARIABLES
    codec_pc,       \* "idle", "built", "encoded", "read", "parsed"
    req,            \* the arguments of the request in hand
    pdu,            \* the bytes build_pdu returned for it
    len_in,         \* the length given to encode_length
    len_bytes,      \* the bytes it pushed
    len_out,        \* what read_length read back from them
    int_in,         \* the content bytes of a value
    int_out,        \* parse_integer of them
    ticks_out       \* parse_timeticks of them

codecVars == <<codec_pc, req, pdu, len_in, len_bytes, len_out, int_in,
               int_out, ticks_out>>

NoMaxRep  == -1      \* Option::None of max_repetitions
NoRequest == [snmpver |-> 0, version |-> NULL, kind |-> NULL, oid |-> << >>,
              max_repetitions |-> NoMaxRep]
NoRead    == [ok |-> FALSE, err |-> NULL, val |-> 0, pos |-> 0]
NoValue   == [some |-> FALSE, neg |-> FALSE, mag |-> << >>]

CodecInit ==
    /\ codec_pc = "idle"
    /\ req = NoRequest
    /\ pdu = << >>
    /\ len_in = 0
    /\ len_bytes = << >>
    /\ len_out = NoRead
    /\ int_in = << >>
    /\ int_out = NoValue
    /\ ticks_out = NoValue

\* ---- OSI layers of a device: state (src/worker/discover.rs, --------------
\* ---- src/models/device.rs) -----------------------------------------------

NumLayers   == 7       \* the OSI layers: (0..7) in discover, 7 - layer in has_layer
MaxServices == 255     \* the largest sysServices value tried

VARIABLES
    layer_pc,       \* "idle", "built", "asked"
    services,       \* sys_info.services: Option<i64>
    dev,            \* the Device record in hand: its layers field
    by_discover,    \* TRUE when discover_device built the record
    layer,          \* the argument of has_layer
    has_out         \* what has_layer returned

layerVars == <<layer_pc, services, dev, by_discover, layer, has_out>>

NoServices == [some |-> FALSE, val |-> 0]
NoLayers   == [some |-> FALSE, val |-> << >>]
NoDevice   == [layers |-> NoLayers]

LayerInit ==
    /\ layer_pc = "idle"
    /\ services = NoServices
    /\ dev = NoDevice
    /\ by_discover = FALSE
    /\ layer = 0
    /\ has_out = FALSE

\* ---- get_system_info: state (src/snmp/client.rs) -------------------------

VARIABLES
    si_pc,          \* "idle", "returned"
    si_gets,        \* the OIDs get was called with, in order
    si_answers,     \* what each of these calls returned
    si_ret          \* what get_system_info returned

infoVars == <<si_pc, si_gets, si_answers, si_ret>>

NoSysInfo == [ok |-> FALSE, info |-> << >>]

InfoInit ==
    /\ si_pc = "idle"
    /\ si_gets = << >>
    /\ si_answers = << >>
    /\ si_ret = NoSysInfo

\* ---- job actions at the API and in the dispatch: state (src/web/api.rs, --
\* ---- src/web/auth.rs, src/backend/manager.rs) ----------------------------

VARIABLES
    api_pc,         \* "idle", "responded", "queued", "finished"
    api_req,        \* the request: action, device, by whom
    api_resp,       \* the HTTP response of api_enqueue_job
    api_job         \* status and log of the job after the worker ran it

apiVars == <<api_pc, api_req, api_resp, api_job>>

NoApiReq == [action |-> NULL, device |-> NULL, via |-> NULL, admin |-> FALSE]
NoApiJob == [status |-> NULL, log |-> NULL]

ApiInit ==
    /\ api_pc = "idle"
    /\ api_req = NoApiReq
    /\ api_resp = NULL
    /\ api_job = NoApiJob

\* ---- expire: state (src/worker/expire.rs) --------------------------------

MaxDay == 2        \* timestamps of rows are days 0..MaxDay; expire runs the day after

VARIABLES
    ex_pc,          \* "idle", the table of the next DELETE, "returned"
    ex_cfg,         \* config.expire_*: the age of each category, in days
    ex_db,          \* the tables device, node, node_ip, admin, user_log
    ex_db0,         \* the tables when expire was called
    ex_messages,    \* expire: local messages (the count of each category)
    ex_ret          \* what expire returned

expireVars == <<ex_pc, ex_cfg, ex_db, ex_db0, ex_messages, ex_ret>>

NoTables == [device |-> {}, node |-> {}, node_ip |-> {}, admin |-> << >>,
             user_log |-> {}]
NoExpireCfg == [expire_devices |-> 0, expire_nodes |-> 0,
                expire_nodes_archive |-> 0, expire_jobs |-> 0,
                expire_userlog |-> 0]
NoExpireRet == [ok |-> FALSE, msg |-> << >>]

ExpireInit ==
    /\ ex_pc = "idle"
    /\ ex_cfg = NoExpireCfg
    /\ ex_db = NoTables
    /\ ex_db0 = NoTables
    /\ ex_messages = << >>
    /\ ex_ret = NoExpireRet

\* ---- macsuck_device / arpnip_device: state (src/worker/macsuck.rs, arpnip.rs)

MaxEntries == 2    \* entries returned by get_mac_table / get_arp_table
MaxMinute == 7     \* the clock, in minutes, stops here

VARIABLES
    pl_pc,          \* "idle", "loop", "deactivate", "stamp", "returned"
    pl_routine,     \* "macsuck" or "arpnip"
    pl_ip,          \* ip: the device polled
    pl_entries,     \* mac_entries / arp_entries
    pl_done,        \* what happened to each entry of the loop so far
    pl_stored,      \* stored
    pl_node,        \* table node, key -> row
    pl_node0,       \* table node when the routine was called
    pl_node_ip,     \* table node_ip, key -> row
    pl_node_ip0,    \* table node_ip when the routine was called
    pl_clock,       \* NOW(), in minutes
    pl_deact,       \* the deactivating UPDATE: "none", "ok" or "failed", and its NOW()
    pl_ret          \* what the routine returned

pollVars == <<pl_pc, pl_routine, pl_ip, pl_entries, pl_done, pl_stored, pl_node,
              pl_node0, pl_node_ip, pl_node_ip0, pl_clock, pl_deact, pl_ret>>

NoPollRet == [ok |-> FALSE, stored |-> 0, total |-> 0]
NoDeact == [result |-> "none", at |-> 0]

PollInit ==
    /\ pl_pc = "idle"
    /\ pl_routine = "macsuck"
    /\ pl_ip = NULL
    /\ pl_entries = << >>
    /\ pl_done = << >>
    /\ pl_stored = 0
    /\ pl_node = << >>
    /\ pl_node0 = << >>
    /\ pl_node_ip = << >>
    /\ pl_node_ip0 = << >>
    /\ pl_clock = 0
    /\ pl_deact = NoDeact
    /\ pl_ret = NoPollRet

\* ---- discover_all / macwalk / arpwalk: state (src/worker/*.rs) ------------

MaxDevices == 3    \* rows of the device table

VARIABLES
    wk_pc,          \* "idle", "list", "loop", "returned"
    wk_action,      \* "discoverall", "macwalk" or "arpwalk"
    wk_table,       \* the rows of device in the order of list_devices
    wk_selected,    \* devices / l2_devices / l3_devices
    wk_calls,       \* the calls of the single-device routine made so far
    wk_success,     \* success
    wk_failed,      \* failed (discover_all)
    wk_ret          \* what the routine returned

walkVars == <<wk_pc, wk_action, wk_table, wk_selected, wk_calls, wk_success,
              wk_failed, wk_ret>>

NoWalkRet == [ok |-> FALSE, success |-> 0, total |-> 0, failed |-> 0]

WalkInit ==
    /\ wk_pc = "idle"
    /\ wk_action = NULL
    /\ wk_table = << >>
    /\ wk_selected = << >>
    /\ wk_calls = << >>
    /\ wk_success = 0
    /\ wk_failed = 0
    /\ wk_ret = NoWalkRet

\* ---- delete_device: state (src/db/queries.rs) -----------------------------

VARIABLES
    dd_pc,          \* "idle", "tx" (transaction open), "returned"
    dd_ip,          \* ip: the device to delete
    dd_step,        \* the statement of delete_device to run next
    dd_committed,   \* the committed rows of the database
    dd_db0,         \* the committed rows when delete_device was called
    dd_pending,     \* rows deleted inside the open transaction
    dd_seen,        \* what a concurrent reader read last
    dd_ret          \* what delete_device returned and where it failed

delVars == <<dd_pc, dd_ip, dd_step, dd_committed, dd_db0, dd_pending, dd_seen,
             dd_ret>>

NoDelRet == [ok |-> FALSE, failed |-> "none"]

DelInit ==
    /\ dd_pc = "idle"
    /\ dd_ip = NULL
    /\ dd_step = 0
    /\ dd_committed = {}
    /\ dd_db0 = {}
    /\ dd_pending = {}
    /\ dd_seen = {}
    /\ dd_ret = NoDelRet

\* ---- state machine --------------------------------------------------------

QueueInit ==
    /\ now = 0
    /\ admin = << >>
    /\ admin_job_seq = 0
    /\ inflight = {}
    /\ pc = [w \in Workers |-> "loop"]
    /\ claim = [w \in Workers |-> NoClaim]
    /\ job = [w \in Workers |-> NoJob]
    /\ result = [w \in Workers |-> NoResult]
    /\ tx = [d \in Deleters |-> NoTx]
    /\ dequeued = [j \in JobIds |-> 0]
    /\ enqueued = [j \in JobIds |-> 0]
    /\ calls = [w \in Workers |-> << >>]
    /\ runs = [w \in Workers |-> 0]
    /\ running = {}
    /\ open = [w \in Workers |-> {}]
    /\ lastdb = [w \in Workers |-> "ok"]

vars == <<queueVars, snmpVars, schedVars, jobVars, berVars, codecVars,
    layerVars,
    infoVars,
    apiVars,
    expireVars,
    pollVars,
    walkVars,
    delVars>>

\* the variables of the components other than the queue
otherVars == <<snmpVars, schedVars, jobVars, berVars, codecVars,
    layerVars,
    infoVars,
    apiVars,
    expireVars,
    pollVars,
    walkVars,
    delVars>>
\* the variables of the components other than the SNMP client
nonSnmpVars == <<queueVars, schedVars, jobVars, berVars, codecVars,
    layerVars,
    infoVars,
    apiVars,
    expireVars,
    pollVars,
    walkVars,
    delVars>>
\* the variables of the components other than the scheduler
nonSchedVars == <<queueVars, snmpVars, jobVars, berVars, codecVars,
    layerVars,
    infoVars,
    apiVars,
    expireVars,
    pollVars,
    walkVars,
    delVars>>
\* the variables of the components other than execute_job
nonJobVars == <<queueVars, snmpVars, schedVars, berVars, codecVars,
    layerVars,
    infoVars,
    apiVars,
    expireVars,
    pollVars,
    walkVars,
    delVars>>
\* the variables of the components other than the response decoder
nonBerVars == <<queueVars, snmpVars, schedVars, jobVars, codecVars,
    layerVars,
    infoVars,
    apiVars,
    expireVars,
    pollVars,
    walkVars,
    delVars>>
\* the variables of the components other than the request builder
nonCodecVars == <<queueVars, snmpVars, schedVars, jobVars, berVars,
    layerVars,
    infoVars,
    apiVars,
    expireVars,
    pollVars,
    walkVars,
    delVars>>
\* the variables of the components other than the layers of a device
nonLayerVars == <<queueVars, snmpVars, schedVars, jobVars, berVars,
    codecVars,
    infoVars,
    apiVars,
    expireVars,
    pollVars,
    walkVars,
    delVars>>
\* the variables of the components other than get_system_info
nonInfoVars == <<queueVars, snmpVars, schedVars,
    jobVars, berVars, codecVars, layerVars,
    apiVars,
    expireVars,
    pollVars,
    walkVars,
    delVars>>
\* the variables of the components other than the API and the dispatch
nonApiVars == <<queueVars, snmpVars, schedVars,
    jobVars, berVars, codecVars, layerVars, infoVars,
    expireVars,
    pollVars,
    walkVars,
    delVars>>
\* the variables of the components other than expire
nonExpireVars == <<queueVars, snmpVars, schedVars,
    jobVars, berVars, codecVars, layerVars, infoVars, apiVars,
    pollVars,
    walkVars,
    delVars>>
\* the variables of the components other than macsuck_device and arpnip_device
nonPollVars == <<queueVars, snmpVars, schedVars,
    jobVars, berVars, codecVars, layerVars, infoVars, apiVars, expireVars,
    walkVars,
    delVars>>
\* the variables of the components other than the walks over all devices
nonWalkVars == <<queueVars, snmpVars, schedVars,
    jobVars, berVars, codecVars, layerVars, infoVars, apiVars, expireVars, pollVars,
    delVars>>
\* the variables of the components other than delete_device
nonDelVars == <<queueVars, snmpVars, schedVars,
    jobVars, berVars, codecVars, layerVars, infoVars, apiVars, expireVars, pollVars, walkVars>>

Init ==
    /\ QueueInit /\ SnmpInit /\ SchedInit /\ JobInit /\ BerInit /\ CodecInit
    /\ LayerInit
    /\ InfoInit
    /\ ApiInit
    /\ ExpireInit
    /\ PollInit
    /\ WalkInit
    /\ DelInit

workerVars == <<pc, claim, job, result, calls, runs, running, open, lastdb>>

\* The database clock advances.
Tick ==
    /\ now < MaxTime
    /\ now' = now + 1
    /\ UNCHANGED <<admin, admin_job_seq, inflight, tx, dequeued,
                   enqueued, workerVars>>

\* enqueue_job called by the scheduler, the web API or anyone: the INSERT
\* runs (NOW() and the job id are fixed) but has not committed yet.
EnqueueStmt(action, device) ==
    /\ admin_job_seq < MaxJobs
    /\ admin_job_seq' = nextval(admin_job_seq)
    /\ inflight' = inflight \cup
          {[job |-> nextval(admin_job_seq), row |-> InsertRow(action, device, now)]}
    /\ UNCHANGED <<now, admin, tx, dequeued, enqueued, workerVars>>

\* The INSERT commits; enqueue_job returns Ok(job).
EnqueueCommit(i) ==
    /\ i \in inflight
    /\ inflight' = inflight \ {i}
    /\ admin' = InsertInto(admin, i.job, i.row)
    /\ enqueued' = [enqueued EXCEPT ![i.job] = @ + 1]
    /\ UNCHANGED <<now, admin_job_seq, tx, dequeued, workerVars>>

\* The INSERT fails; enqueue_job returns Err, the id is used up.
EnqueueFail(i) ==
    /\ i \in inflight
    /\ inflight' = inflight \ {i}
    /\ UNCHANGED <<now, admin, admin_job_seq, tx, dequeued, enqueued,
                   workerVars>>

\* run_worker line 22, dequeue_job: the subselect runs.  It either finds no
\* row (the call returns Ok(None)) or locks the row it chose.
DequeueStmt(w) ==
    /\ pc[w] = "loop"
    /\ \E j \in SelectQueuedSkipLocked(admin, LockedRows) :
          IF j = 0
          THEN /\ pc' = [pc EXCEPT ![w] = AfterDequeue("None")]
               /\ UNCHANGED claim
          ELSE /\ pc' = [pc EXCEPT ![w] = "claiming"]
               /\ claim' = [claim EXCEPT ![w] = [job |-> j, at |-> now]]
    /\ lastdb' = [lastdb EXCEPT ![w] = "ok"]
    /\ UNCHANGED <<now, admin, admin_job_seq, inflight, job, result, tx,
                   dequeued, enqueued, calls, runs, running, open>>

\* dequeue_job: the UPDATE of the locked row commits and the row is
\* returned (Ok(Some(job))).
DequeueCommit(w) ==
    /\ pc[w] = "claiming"
    /\ LET j == claim[w].job
           row == UpdateRunning(admin[j], claim[w].at)
       IN /\ admin' = [admin EXCEPT ![j] = row]
          /\ job' = [job EXCEPT ![w] =
                       [job |-> j, action |-> row.action, device |-> row.device]]
          /\ dequeued' = [dequeued EXCEPT ![j] = @ + 1]
          /\ open' = [open EXCEPT ![w] = @ \cup {j}]
    /\ pc' = [pc EXCEPT ![w] = AfterDequeue("Some")]
    /\ claim' = [claim EXCEPT ![w] = NoClaim]
    /\ UNCHANGED <<now, admin_job_seq, inflight, result, tx, enqueued, calls, runs, running, lastdb>>

\* dequeue_job returns Err (pool or database failure): nothing is changed,
\* a lock taken by the statement is released.
DequeueFail(w) ==
    /\ pc[w] \in {"loop", "claiming"}
    /\ pc' = [pc EXCEPT ![w] = AfterDequeue("Err")]
    /\ claim' = [claim EXCEPT ![w] = NoClaim]
    /\ lastdb' = [lastdb EXCEPT ![w] = "dequeue_err"]
    /\ UNCHANGED <<now, admin, admin_job_seq, inflight, job, result, tx,
                   dequeued, enqueued, calls, runs, running, open>>

\* run_worker lines 57 and 61: sleep(sleep_time) is over.
Wake(w) ==
    /\ pc[w] = "sleep"
    /\ pc' = [pc EXCEPT ![w] = "loop"]
    /\ lastdb' = [lastdb EXCEPT ![w] = "ok"]
    /\ UNCHANGED <<now, admin, admin_job_seq, inflight, claim, job, result, tx,
                   dequeued, enqueued, calls, runs, running, open>>

\* run_worker lines 29-32: the routine of the claimed job starts under the
\* deadline.
RoutineStart(w) ==
    /\ pc[w] = "exec"
    /\ pc' = [pc EXCEPT ![w] = "routine"]
    /\ runs' = [runs EXCEPT ![w] = @ + 1]
    /\ running' = running \cup {<<w, job[w].job>>}
    /\ UNCHANGED <<now, admin, admin_job_seq, inflight, claim, job, result, tx,
                   dequeued, enqueued, calls, open, lastdb>>

\* delete_device line 122 inside its transaction: DELETE FROM admin WHERE
\* device = $1 has run and holds the deleted rows locked until the
\* transaction ends.  The statement waits while another statement or
\* transaction holds one of these rows.  Run by a worker for a "delete" job
\* (execute_job line 118) or by the do_cmd process (do_cmd.rs line 97).
DeleteStmt(d, ip) ==
    /\ ~tx[d].open
    /\ \/ d = Cli
       \/ /\ d \in Workers
          /\ pc[d] = "routine"
          /\ job[d].action = "delete"
          /\ job[d].device = ip
    /\ DeleteAdminWhereDevice(admin, ip) \cap LockedRows = {}
    /\ tx' = [tx EXCEPT ![d] =
                 [open |-> TRUE, rows |-> DeleteAdminWhereDevice(admin, ip)]]
    /\ UNCHANGED <<now, admin, admin_job_seq, inflight, dequeued,
                   enqueued, workerVars>>

\* do_cmd: tx.commit() of delete_device succeeds.
CliCommit ==
    /\ tx[Cli].open
    /\ admin' = Without(admin, tx[Cli].rows)
    /\ tx' = [tx EXCEPT ![Cli] = NoTx]
    /\ UNCHANGED <<now, admin_job_seq, inflight, dequeued, enqueued,
                   workerVars>>

\* do_cmd: a later statement or the commit fails; the transaction rolls back.
CliRollback ==
    /\ tx[Cli].open
    /\ tx' = [tx EXCEPT ![Cli] = NoTx]
    /\ UNCHANGED <<now, admin, admin_job_seq, inflight, dequeued,
                   enqueued, workerVars>>

\* The rows of admin after the routine of worker w ended with result r.
\*  delete: Ok only after the transaction committed; Err or the deadline
\*          roll it back.
\*  expire: the job DELETE is its own statement: it has run when the routine
\*          returns Ok, and may or may not have run when a statement fails or
\*          the deadline passes.
RoutineEffects(w, r) ==
    CASE job[w].action = "delete" /\ job[w].device # NULL ->
            IF r.res = "OkOk" THEN {Without(admin, tx[w].rows)} ELSE {admin}
      [] job[w].action = "expire" ->
            LET gone == ExpireJobsWhere(admin, now, expire_jobs)
                ran  == IF gone \cap LockedRows = {}
                        THEN {Without(admin, gone)} ELSE {}
            IN  IF r.res = "OkOk" THEN ran ELSE ran \cup {admin}
      [] OTHER -> {admin}

\* run_worker lines 29-34: timeout(execute_job) resolves with `result`.
RoutineEnd(w) ==
    /\ pc[w] = "routine"
    /\ \E r \in execute_job(job[w].action, job[w].device) :
          /\ (job[w].action = "delete" /\ r.res = "OkOk") => tx[w].open
          /\ result' = [result EXCEPT ![w] = r]
          /\ running' = AfterTimeout(running, w, r)
          /\ \E rows \in RoutineEffects(w, r) : admin' = rows
    /\ tx' = [tx EXCEPT ![w] = NoTx]
    /\ pc' = [pc EXCEPT ![w] = "complete"]
    /\ UNCHANGED <<now, admin_job_seq, inflight, claim, job, dequeued,
                   enqueued, calls, runs, open, lastdb>>

\* the table after the complete_job calls `args` for job id, in order
RECURSIVE ApplyCalls(_, _, _, _)
ApplyCalls(rows, id, args, at) ==
    IF args = << >> THEN rows
    ELSE ApplyCalls(UpdateComplete(rows, id, Head(args).status, Head(args).log, at),
                    id, Tail(args), at)

\* the calls as recorded: <<job id, status, log>>
CallLog(id, args) ==
    [i \in 1..Len(args) |-> [job |-> id, status |-> args[i].status, log |-> args[i].log]]

\* run_worker lines 35-52: the complete_job call for `result`; it succeeds
\* (after waiting for a transaction that holds the row) or returns Err,
\* which is only logged.
Complete(w) ==
    /\ pc[w] = "complete"
    /\ LET args == CompleteArgs(result[w])
           id   == job[w].job
       IN /\ calls' = [calls EXCEPT ![w] = @ \o CallLog(id, args)]
          /\ open' = [open EXCEPT ![w] = IF args = << >> THEN @ ELSE @ \ {id}]
          /\ \/ /\ id \notin TxLocks
                /\ admin' = ApplyCalls(admin, id, args, now)
                /\ lastdb' = [lastdb EXCEPT ![w] = "ok"]
                /\ pc' = [pc EXCEPT ![w] = AfterComplete("Ok")]
             \/ /\ args # << >>
                /\ admin' = admin
                /\ lastdb' = [lastdb EXCEPT ![w] = "complete_err"]
                /\ pc' = [pc EXCEPT ![w] = AfterComplete("Err")]
    /\ UNCHANGED <<now, admin_job_seq, inflight, claim, job, result, tx,
                   dequeued, enqueued, runs, running>>

\* run_worker lines 54 and 63-64: the match arm ends, `job` and `result` go
\* out of scope and the loop starts over.
LoopBack(w) ==
    /\ pc[w] = "iter_end"
    /\ pc' = [pc EXCEPT ![w] = "loop"]
    /\ job' = [job EXCEPT ![w] = NoJob]
    /\ result' = [result EXCEPT ![w] = NoResult]
    /\ calls' = [calls EXCEPT ![w] = << >>]
    /\ runs' = [runs EXCEPT ![w] = 0]
    /\ lastdb' = [lastdb EXCEPT ![w] = "ok"]
    /\ UNCHANGED <<now, admin, admin_job_seq, inflight, claim, tx, dequeued, enqueued, running, open>>

\* start_backend lines 45-52: after ctrl_c, handle.abort() drops the worker
\* task where it stands.  An open delete_device transaction of the task is
\* rolled back; a dequeue statement already sent is either lost or still
\* carried out by the server, with nobody receiving the row.
Abort(w) ==
    /\ pc[w] # "aborted"
    /\ \/ admin' = admin
       \/ /\ pc[w] = "claiming"
          /\ admin' = [admin EXCEPT ![claim[w].job] =
                          UpdateRunning(@, claim[w].at)]
    /\ pc' = [pc EXCEPT ![w] = "aborted"]
    /\ claim' = [claim EXCEPT ![w] = NoClaim]
    /\ tx' = [tx EXCEPT ![w] = NoTx]
    /\ job' = [job EXCEPT ![w] = NoJob]
    /\ result' = [result EXCEPT ![w] = NoResult]
    /\ calls' = [calls EXCEPT ![w] = << >>]
    /\ runs' = [runs EXCEPT ![w] = 0]
    /\ running' = {f \in running : f[1] # w}
    /\ lastdb' = [lastdb EXCEPT ![w] = "ok"]
    /\ UNCHANGED <<now, admin_job_seq, inflight, dequeued, enqueued, open>>

Next ==
    \/ Tick /\ UNCHANGED otherVars
    \/ \E q \in EnqueueRequests : EnqueueStmt(q[1], q[2]) /\ UNCHANGED otherVars
    \/ \E i \in inflight : EnqueueCommit(i) /\ UNCHANGED otherVars
    \/ \E i \in inflight : EnqueueFail(i) /\ UNCHANGED otherVars
    \/ \E w \in Workers : DequeueStmt(w) /\ UNCHANGED otherVars
    \/ \E w \in Workers : DequeueCommit(w) /\ UNCHANGED otherVars
    \/ \E w \in Workers : DequeueFail(w) /\ UNCHANGED otherVars
    \/ \E w \in Workers : Wake(w) /\ UNCHANGED otherVars
    \/ \E w \in Workers : RoutineStart(w) /\ UNCHANGED otherVars
    \/ \E d \in Deleters, ip \in Devices : DeleteStmt(d, ip) /\ UNCHANGED otherVars
    \/ CliCommit /\ UNCHANGED otherVars
    \/ CliRollback /\ UNCHANGED otherVars
    \/ \E w \in Workers : RoutineEnd(w) /\ UNCHANGED otherVars
    \/ \E w \in Workers : Complete(w) /\ UNCHANGED otherVars
    \/ \E w \in Workers : LoopBack(w) /\ UNCHANGED otherVars
    \/ \E w \in Workers : Abort(w) /\ UNCHANGED otherVars

Spec == Init /\ [][Next]_vars

\* ---- properties -----------------------------------------------------------

Finished == {"done", "error"}

\* a step in which worker w's dequeue subselect locked a row
Claims(w) == pc[w] = "loop" /\ pc'[w] = "claiming"

\* a step in which worker w's dequeue_job returned Ok(None)
ReturnsNone(w) == pc[w] = "loop" /\ pc'[w] = "sleep" /\ lastdb'[w] = "ok"

Queued(rows) == {j \in DOMAIN rows : rows[j].status = "queued"}

\* C1: a job row is returned by at most one dequeue_job call, in every
\* interleaving of the workers: no job id is returned twice, and two
\* workers never hold the same job.
C1_AtMostOneOwner ==
    /\ \A j \in JobIds : dequeued[j] <= 1
    /\ \A v, w \in Workers : v # w /\ job[v].job # 0 => job[v].job # job[w].job
    /\ \A v, w \in Workers : v # w => open[v] \cap open[w] = {}

\* C1 witness: both workers hold a job they claimed, each returned once.
C1_Witness ==
    /\ \A w \in Workers : job[w].job # 0 /\ dequeued[job[w].job] = 1
    /\ job[1].job # job[2].job

\* C2: the status of a row changes only queued -> running (by the dequeue_job
\* statement that holds the row locked) and running -> done or error (by a complete_job
\* call of the worker that holds it); no row ever has status deferred.
C2_StatusMachine ==
    [][ /\ \A j \in DOMAIN admin' : admin'[j].status # "deferred"
        /\ \A j \in DOMAIN admin \cap DOMAIN admin' :
             admin[j].status # admin'[j].status =>
                \/ /\ admin[j].status = "queued"
                   /\ admin'[j].status = "running"
                   /\ \E w \in Workers : /\ pc[w] = "claiming"
                                         /\ claim[w].job = j
                                         /\ pc'[w] # "claiming"
                \/ /\ admin[j].status = "running"
                   /\ admin'[j].status \in Finished
                   /\ \E w \in Workers : /\ job[w].job = j
                                         /\ Len(calls'[w]) = Len(calls[w]) + 1 ]_vars

\* C2 witness: one job has ended done and another has ended error.
C2_Witness ==
    \E j, k \in DOMAIN admin : admin[j].status = "done" /\ admin[k].status = "error"

\* C3: for every row, started is set exactly when the status is running,
\* done or error, finished is set exactly when it is done or error; a row
\* being inserted is queued with neither timestamp; a done row has a
\* non-empty log.
C3_Timestamps ==
    /\ \A j \in DOMAIN admin :
          /\ admin[j].started # NoTime <=> admin[j].status \in {"running"} \cup Finished
          /\ admin[j].finished # NoTime <=> admin[j].status \in Finished
          /\ admin[j].status = "done" => admin[j].log \notin {NULL, ""}
    /\ \A i \in inflight :
          /\ i.row.status = "queued"
          /\ i.row.started = NoTime
          /\ i.row.finished = NoTime

\* C3 witness: a queued, a running-or-error and a done row have been seen:
\* here one row is done and the other one is running.
C3_Witness ==
    \E j, k \in DOMAIN admin : admin[j].status = "done" /\ admin[k].status = "running"

\* C4: for each claimed job the worker runs the routine at most once and
\* then makes exactly one complete_job call for that job id: done with the
\* routine's summary, error with the error text, or error with the
\* timed-out log, according to the result of the routine under the deadline.
C4_OneCompletePerClaim ==
    \A w \in Workers :
        /\ runs[w] <= 1
        /\ Len(calls[w]) <= 1
        /\ pc[w] \in {"exec", "routine", "complete"} => calls[w] = << >>
        /\ pc[w] \in {"complete", "iter_end"} =>
              /\ runs[w] = 1
              /\ result[w] \in execute_job(job[w].action, job[w].device)
        /\ pc[w] = "iter_end" =>
              /\ Len(calls[w]) = 1
              /\ calls[w][1].job = job[w].job
              /\ result[w].res = "OkOk" =>
                    calls[w][1].status = "done" /\ calls[w][1].log = result[w].log
              /\ result[w].res = "OkErr" =>
                    calls[w][1].status = "error" /\ calls[w][1].log = result[w].log
              /\ result[w].res = "Elapsed" =>
                    calls[w][1].status = "error" /\ calls[w][1].log = "Job timed out"

\* C4 witness: one worker has completed a job that hit the deadline and the
\* other one a job whose routine succeeded.
C4_Witness ==
    \E v, w \in Workers :
        /\ pc[v] = "iter_end" /\ result[v].res = "Elapsed"
        /\ pc[w] = "iter_end" /\ result[w].res = "OkOk"

\* C5: a database error never ends a worker loop: after a failed
\* dequeue_job the worker sleeps and can go on to dequeue again, after a
\* failed complete_job it goes on to the next iteration; a worker is only
\* ever inside its loop or aborted.
C5_LoopSurvivesDbErrors ==
    \A w \in Workers :
        /\ pc[w] \in {"loop", "claiming", "exec", "routine", "complete",
                      "iter_end", "sleep", "aborted"}
        /\ lastdb[w] = "dequeue_err" => pc[w] = "sleep" /\ ENABLED Wake(w)
        /\ lastdb[w] = "complete_err" => pc[w] = "iter_end" /\ ENABLED LoopBack(w)

\* C5 witness: one worker just had complete_job fail, the other one
\* dequeue_job.
C5_Witness ==
    \E v, w \in Workers : lastdb[v] = "complete_err" /\ lastdb[w] = "dequeue_err"

\* C6: dequeue_job never waits: whenever a worker is about to call it the
\* subselect can run; it locks a queued row nobody holds locked if there is
\* one (skipping locked rows), and otherwise returns no job and leaves the
\* table as it is.
C6_NeverBlocks ==
    /\ [](\A w \in Workers : pc[w] = "loop" => ENABLED DequeueStmt(w))
    /\ [][\A w \in Workers :
            /\ Claims(w) => claim'[w].job \in Queued(admin) \ LockedRows
            /\ ReturnsNone(w) => Queued(admin) \ LockedRows = {} /\ admin' = admin
            /\ pc[w] = "loop" /\ Queued(admin) \ LockedRows # {} /\ pc'[w] # pc[w] =>
                  pc'[w] \in {"claiming", "aborted"} \/ lastdb'[w] = "dequeue_err"
        ]_vars

\* C6 witness: a worker has locked a later row while the oldest queued row
\* is locked by the other worker's claim.
C6_Witness ==
    \E v, w \in Workers :
        /\ v # w /\ pc[v] = "claiming" /\ pc[w] = "claiming"
        /\ admin[claim[v].job].entered < admin[claim[w].job].entered

\* C7 as stated: every dequeue_job locks a row with the earliest entered
\* among the rows that are queued and not locked by a concurrent claimer.
C7_FifoAmongNotClaimLocked ==
    [][\A w \in Workers : Claims(w) =>
          \A k \in Queued(admin) \ ClaimLocks :
              admin[claim'[w].job].entered <= admin[k].entered]_vars

\* FIFO among the queued rows that no statement or transaction holds locked
\* (what FOR UPDATE SKIP LOCKED with ORDER BY entered gives).
C7_FifoAmongUnlocked ==
    [][\A w \in Workers : Claims(w) =>
          \A k \in Queued(admin) \ LockedRows :
              admin[claim'[w].job].entered <= admin[k].entered]_vars

\* C8: an enqueue_job call that returns adds exactly one row, with an id
\* that was never returned before and that no row has, status queued,
\* entered set, started and finished unset, and leaves all other rows as
\* they are; no id is returned twice.
C8_EnqueueAddsOneRow ==
    /\ [](\A j \in JobIds : enqueued[j] <= 1)
    /\ [][enqueued' # enqueued =>
            \E j \in JobIds :
                /\ enqueued[j] = 0
                /\ enqueued' = [enqueued EXCEPT ![j] = 1]
                /\ j \notin DOMAIN admin
                /\ DOMAIN admin' = DOMAIN admin \cup {j}
                /\ admin'[j].status = "queued"
                /\ admin'[j].entered # NoTime
                /\ admin'[j].started = NoTime
                /\ admin'[j].finished = NoTime
                /\ \A k \in DOMAIN admin : admin'[k] = admin[k] ]_vars

\* C8 witness: two enqueue_job calls that overlapped have both returned
\* while a worker was in the middle of claiming the first row.
C8_Witness ==
    /\ enqueued = [j \in JobIds |-> 1]
    /\ \E w \in Workers : pc[w] \in {"claiming", "complete"}

\* C9: a worker has at most one claimed job whose complete_job call is
\* still to come and at most one routine alive, and none when it calls
\* dequeue_job or sleeps; so at most NumWorkers routines are alive.
C9_OneJobPerWorker ==
    /\ \A w \in Workers :
          /\ pc[w] # "aborted" => Cardinality(open[w]) <= 1
          /\ Cardinality({f \in running : f[1] = w}) <= 1
          /\ pc[w] \in {"loop", "claiming", "sleep"} =>
                open[w] = {} /\ {f \in running : f[1] = w} = {}
    /\ Cardinality(running) <= NumWorkers

\* C9 witness: every worker has a routine alive.
C9_Witness == Cardinality(running) = NumWorkers

\* C10 as stated: a row leaves admin only in a step of the expire routine,
\* and only when it is done or error with finished older than the job age.
C10_OnlyExpireDeletes ==
    [][\A j \in DOMAIN admin \ DOMAIN admin' :
          /\ \E w \in Workers : /\ pc[w] = "routine" /\ pc'[w] = "complete"
                                /\ job[w].action = "expire"
          /\ admin[j].status \in Finished
          /\ admin[j].finished < now - expire_jobs ]_vars

\* jobs whose worker task was aborted between dequeue_job returning them and
\* the complete_job call (start_backend, handle.abort())
Orphaned == UNION {open[w] : w \in {v \in Workers : pc[v] = "aborted"}}

\* C11 as stated: the row of a job whose worker was aborted while it held
\* the job stays in the table with status running for ever, and no later
\* dequeue_job locks or returns it.
C11_RunningForever ==
    /\ [](\A j \in Orphaned : j \in DOMAIN admin /\ admin[j].status = "running")
    /\ [][\A w \in Workers : Claims(w) => claim'[w].job \notin Orphaned]_vars

\* What holds of such a row: as long as it exists its status is running, no
\* dequeue_job locks it and it was returned exactly once.
C11_NeverRecovered ==
    /\ [](\A j \in Orphaned :
             /\ dequeued[j] = 1
             /\ j \in DOMAIN admin => admin[j].status = "running")
    /\ [][\A w \in Workers : Claims(w) => claim'[w].job \notin Orphaned]_vars

\* ---- SNMP client: walk, get_next, send_receive (src/snmp/client.rs) ------

\* Vec<u32> values an OID can take (decode_oid always gives two components
\* or more).
Oids == UNION {[1..n -> 0..MaxComp] : n \in 2..MaxOidLen}

\* the base OIDs walk is called with (the tables of src/snmp/oids.rs)
BaseOids == {<<1, 0>>, <<1, 0, 1>>}

Values == {"v1", "v2"}

\* What a datagram holds, as parse_snmp_response sees it.
Responses ==
    {[kind |-> "varbind", oid |-> o, value |-> v] : o \in Oids, v \in Values}
    \cup {[kind |-> k, oid |-> << >>, value |-> NULL] :
            k \in {"malformed", "error_status", "empty_oid", "no_varbind"}}

\* io::Error kinds socket.recv can return: the read timeout and an ICMP
\* port-unreachable on the connected socket.
RecvErrors == {"WouldBlock", "ConnectionRefused"}

\* slice::starts_with
starts_with(oid, base) ==
    Len(base) <= Len(oid) /\ SubSeq(oid, 1, Len(base)) = base

\* Ord of Vec<u32>, a < b: lexicographic, a proper prefix is less
RECURSIVE OidLess(_, _)
OidLess(a, b) ==
    IF b = << >> THEN FALSE
    ELSE IF a = << >> THEN TRUE
    ELSE IF Head(a) # Head(b) THEN Head(a) < Head(b)
    ELSE OidLess(Tail(a), Tail(b))

\* parse_getnext_response: the first varbind of the response or an error.
parse_getnext_response(d) ==
    CASE d.kind = "varbind" ->
            [ok |-> TRUE, oid |-> d.oid, value |-> d.value, err |-> NULL]
      [] d.kind = "malformed" ->
            [ok |-> FALSE, oid |-> << >>, value |-> NULL,
             err |-> "BER: unexpected end of data reading tag"]
      [] d.kind = "empty_oid" ->
            [ok |-> FALSE, oid |-> << >>, value |-> NULL, err |-> "BER: empty OID"]
      [] d.kind = "error_status" ->
            [ok |-> FALSE, oid |-> << >>, value |-> NULL,
             err |-> "SNMP error-status: {} ({})"]
      [] d.kind = "no_varbind" ->
            [ok |-> FALSE, oid |-> << >>, value |-> NULL,
             err |-> "SNMP GETNEXT: no varbind in response"]

\* Mutant of Accepts: the guard lets an OID equal to the current one pass
\* (next_oid < current_oid for next_oid <= current_oid).
Accepts_AllowEqual(base, current, next) ==
    /\ ~(next = << >> \/ ~starts_with(next, base))
    /\ ~OidLess(next, current)

\* Mutant of Accepts: walk without the guard against an OID that did not
\* advance.
Accepts_NoAdvanceGuard(base, current, next) ==
    ~(next = << >> \/ ~starts_with(next, base))

\* walk lines 152-159: the returned OID passes both checks (no break).
Accepts(base, current, next) ==
    /\ ~(next = << >> \/ ~starts_with(next, base))
    /\ ~(next = current \/ OidLess(next, current))

\* Mutant of WalkReturn: walk propagates the error of get_next.
WalkReturn_Propagate(res, err) ==
    IF err = NULL THEN [ok |-> TRUE, value |-> res]
    ELSE [ok |-> FALSE, value |-> << >>]

\* walk line 171 after a break: Ok(results), whatever ended the loop.
WalkReturn(res, err) == [ok |-> TRUE, value |-> res]

\* Mutant of AfterRecvErr: one retry too many.
AfterRecvErr_OneMore(att, n) == IF att <= n THEN "send" ELSE "timed_out"

\* send_receive lines 292-298: a failed recv is retried while attempt <
\* retries, otherwise the exchange fails.
AfterRecvErr(att, n) == IF att < n THEN "send" ELSE "timed_out"

\* walk is called on a client (SnmpClient::new fixed its retries).
WalkCall(b, n) ==
    /\ wpc = "caller"
    /\ wpc' = "get_next"
    /\ retries' = n
    /\ base_oid' = b
    /\ current_oid' = b
    /\ results' = << >>
    /\ attempt' = 0
    /\ walk_ret' = NoRet
    /\ sent' = 0
    /\ recv_errs' = << >>
    /\ exchanges' = 0
    /\ received' = << >>
    /\ last_exchange' = NoExchange
    /\ UNCHANGED nonSnmpVars

\* walk lines 163-171: get_next returned Err(err) or the OID failed a check
\* (err = NULL); the loop breaks and walk returns.
WalkBreak(err) ==
    /\ wpc' = "caller"
    /\ walk_ret' = WalkReturn(results, err)
    /\ UNCHANGED <<retries, base_oid, current_oid, results>>

\* walk line 149 / send_receive lines 276-281: get_next starts an exchange;
\* the socket is bound, given its read timeout and connected, or one of the
\* three calls fails.
GetNext ==
    /\ wpc = "get_next"
    /\ exchanges' = exchanges + 1
    /\ attempt' = 0
    /\ sent' = 0
    /\ recv_errs' = << >>
    /\ \/ /\ wpc' = "send"
          /\ UNCHANGED <<retries, base_oid, current_oid, results, walk_ret,
                         last_exchange>>
       \/ /\ last_exchange' = [ok |-> FALSE, err |-> "Failed to bind UDP socket"]
          /\ WalkBreak("Failed to bind UDP socket")
    /\ UNCHANGED <<received, nonSnmpVars>>

\* send_receive line 284: socket.send(pdu).
Send ==
    /\ wpc = "send"
    /\ \/ /\ sent' = sent + 1
          /\ wpc' = "recv"
          /\ UNCHANGED <<retries, base_oid, current_oid, results, walk_ret,
                         last_exchange>>
       \/ /\ last_exchange' = [ok |-> FALSE, err |-> "Failed to send SNMP PDU"]
          /\ WalkBreak("Failed to send SNMP PDU")
          /\ UNCHANGED sent
    /\ UNCHANGED <<attempt, recv_errs, exchanges, received, nonSnmpVars>>

\* send_receive lines 287-291, get_next line 131, walk lines 150-166: a
\* datagram arrived; send_receive returns it, get_next parses it and walk
\* takes the pair or breaks.
RecvDatagram(d) ==
    /\ wpc = "recv"
    /\ LET r == parse_getnext_response(d)
       IN /\ last_exchange' = [ok |-> TRUE, err |-> r.err]
          /\ received' = IF r.ok THEN Append(received, <<r.oid, r.value>>)
                         ELSE received
          /\ IF r.ok /\ Accepts(base_oid, current_oid, r.oid)
             THEN /\ current_oid' = r.oid
                  /\ results' = Append(results, <<r.oid, r.value>>)
                  /\ wpc' = "get_next"
                  /\ UNCHANGED <<retries, base_oid, walk_ret>>
             ELSE WalkBreak(r.err)
    /\ UNCHANGED <<attempt, sent, recv_errs, exchanges, nonSnmpVars>>

\* send_receive lines 292-298: socket.recv returned Err(e).
RecvError(e) ==
    /\ wpc = "recv"
    /\ recv_errs' = Append(recv_errs, e)
    /\ IF AfterRecvErr(attempt, retries) = "send"
       THEN /\ attempt' = attempt + 1
            /\ wpc' = "send"
            /\ UNCHANGED <<retries, base_oid, current_oid, results, walk_ret,
                           last_exchange>>
       ELSE /\ last_exchange' = [ok |-> FALSE, err |-> "SNMP request timed out"]
            /\ WalkBreak("SNMP request timed out")
            /\ UNCHANGED attempt
    /\ UNCHANGED <<sent, exchanges, received, nonSnmpVars>>

SnmpNext ==
    \/ \E b \in BaseOids, n \in 0..snmpretries : WalkCall(b, n)
    \/ GetNext
    \/ Send
    \/ \E d \in Responses : RecvDatagram(d)
    \/ \E e \in RecvErrors : RecvError(e)

SnmpSpec == Init /\ [][SnmpNext]_vars

\* walk is straight-line code: every step (a send, a recv under the read
\* timeout) comes to an end.
FairSnmpSpec == SnmpSpec /\ WF_vars(SnmpNext)

\* the OIDs walk can accept below base: inside the subtree and after base
Subtree(base) == {o \in Oids : starts_with(o, base) /\ OidLess(base, o)}

\* C12: walk comes to an end whatever the responder does: the OIDs it
\* accepts lie in the subtree of base_oid and strictly increase, so it makes
\* at most one GETNEXT exchange per OID of the subtree and one more, and every
\* walk that was called returns.
C12_WalkTerminates ==
    /\ [](\A i \in 1..Len(results) :
             /\ results[i][1] \in Subtree(base_oid)
             /\ i > 1 => OidLess(results[i-1][1], results[i][1])
             /\ i = Len(results) => current_oid = results[i][1])
    /\ [](exchanges <= Cardinality(Subtree(base_oid)) + 1)
    /\ (wpc # "caller") ~> (wpc = "caller" /\ walk_ret.ok)

\* C12 witness: a walk has returned on its third exchange, in which the
\* responder repeated an OID of the subtree that does not come after the
\* previous one.
C12_Witness ==
    /\ wpc = "caller" /\ walk_ret.ok
    /\ exchanges = 3 /\ Len(results) = 2 /\ Len(received) = 3
    /\ starts_with(received[3][1], base_oid)
    /\ ~OidLess(current_oid, received[3][1])

\* the pairs of seq, in order, up to the first one that is outside the
\* subtree of base or does not come after the one before it (cur at first)
RECURSIVE AcceptedPrefix(_, _, _)
AcceptedPrefix(base, cur, seq) ==
    IF seq = << >> THEN << >>
    ELSE IF Head(seq)[1] \in Subtree(base) /\ OidLess(cur, Head(seq)[1])
         THEN <<Head(seq)>> \o AcceptedPrefix(base, Head(seq)[1], Tail(seq))
         ELSE << >>

\* C13: a walk that has returned has returned Ok, never an error, with
\* exactly the pairs it received and accepted before the exchange that
\* stopped it (a failed exchange or a pair that failed a check), in the order
\* received; get_next gave it at most one pair it did not take.
C13_WalkReturnsOkPartial ==
    (wpc = "caller" /\ exchanges > 0) =>
        /\ walk_ret.ok
        /\ walk_ret.value = results
        /\ results = AcceptedPrefix(base_oid, base_oid, received)
        /\ Len(received) <= Len(results) + 1
        /\ Len(received) = Len(results) <=> last_exchange.err # NULL

\* C13 witness: a walk returned two pairs after its third exchange timed
\* out.
C13_Witness ==
    /\ wpc = "caller" /\ exchanges = 3
    /\ last_exchange = [ok |-> FALSE, err |-> "SNMP request timed out"]
    /\ Len(walk_ret.value) = 2
    /\ walk_ret.value[1][2] # walk_ret.value[2][2]

\* a step in which send_receive sent the request again
Resends == sent' = sent + 1 /\ sent >= 1

\* what holds of one exchange whatever made the receive attempts fail
ExchangeBounds ==
    /\ [](sent <= retries + 1 /\ Len(recv_errs) <= sent)
    /\ [][wpc = "recv" /\ recv_errs' = recv_errs /\ wpc' # "recv" =>
             last_exchange'.ok /\ sent' = sent /\ Len(recv_errs) = sent - 1]_vars
    /\ [](last_exchange = [ok |-> FALSE, err |-> "SNMP request timed out"] =>
             Len(recv_errs) = retries + 1 /\ sent = retries + 1)
    /\ [](\A d \in Responses :
             parse_getnext_response(d).err # "SNMP request timed out")

\* C14 as stated: one exchange sends at most retries+1 times, returns the
\* first datagram it receives, sends again only after a receive attempt has
\* timed out and only while retries remain, and after retries+1 failed
\* receive attempts returns the timed-out error, which no decode or protocol
\* error equals.
C14_ResendsOnlyAfterTimeout ==
    /\ ExchangeBounds
    /\ [][Resends => /\ Len(recv_errs) = sent
                     /\ recv_errs[sent] = "WouldBlock"
                     /\ sent <= retries]_vars

\* The same with "has failed" for "has timed out": the request is sent again
\* after any error of socket.recv.
C14_ResendsAfterRecvError ==
    /\ ExchangeBounds
    /\ [][Resends => /\ Len(recv_errs) = sent
                     /\ recv_errs[sent] \in RecvErrors
                     /\ sent <= retries]_vars

\* ---- scheduler: run_scheduler (src/backend/scheduler.rs) ------------------

\* chrono Timelike: now.hour() and now.minute() of a clock reading
hour_of(t)   == ((t \div Phases) \div MinutesPerHour) % HoursPerDay
minute_of(t) == (t \div Phases) % MinutesPerHour
\* a clock reading in minutes since 00:00 of the day watched
minutes_of(t) == t \div Phases

Rules == 1..5
RuleAction(i) ==
    CASE i = 1 -> "discoverall" [] i = 2 -> "macwalk" [] i = 3 -> "arpwalk"
      [] i = 4 -> "nbtwalk"     [] i = 5 -> "expire"
SchedActions == {RuleAction(i) : i \in Rules}

\* run_scheduler lines 26, 34, 42, 50, 58: the condition of rule i.
Matches(i, hour, minute) ==
    CASE i = 1 -> hour = 7 /\ minute = 5
      [] i = 2 -> minute = 20 \/ minute = 40 \/ minute = 0
      [] i = 3 -> minute = 50
      [] i = 4 -> minute = 0 /\ (hour = 8 \/ hour = 13 \/ hour = 21)
      [] i = 5 -> hour = 23 /\ minute = 30

\* the first rule after rule i whose condition holds for the reading t
\* (0: none, the loop body is over)
NextMatch(i, t) ==
    LET later == {k \in Rules : k > i /\ Matches(k, hour_of(t), minute_of(t))}
    IN  IF later = {} THEN 0 ELSE CHOOSE k \in later : \A m \in later : k <= m

\* Mutant of AfterEnqueue: `db::enqueue_job(..).await?` ends run_scheduler.
AfterEnqueue_Propagate(r, i, t) == IF r = "Err" THEN 6 ELSE NextMatch(i, t)

\* run_scheduler, `if let Err(e) = db::enqueue_job(..)`: where the loop body
\* goes after the call of rule i returned r.
AfterEnqueue(r, i, t) == NextMatch(i, t)

\* Mutant of Enqueues: a rule whose action still has a job queued or
\* running is skipped.
Enqueues_Dedup(i, waiting) == RuleAction(i) \notin waiting

\* run_scheduler: rule i, once its condition holds, calls enqueue_job
\* whatever is in the queue.
Enqueues(i, waiting) == TRUE

\* The wall clock advances.  A tick wakes up at most MaxLate instants after
\* its deadline, and the loop body is over by then as well.
Tock ==
    /\ clock # NotStarted
    /\ clock < DayLen + Phases
    /\ clock < deadline + MaxLate
    /\ clock' = clock + 1
    /\ UNCHANGED <<deadline, rule, local_now, tick_calls, day_calls,
                   last_arpwalk, last_enq, dup_call, nonSchedVars>>

\* run_scheduler line 16: started in the last minute before the day watched;
\* the first tick of interval() is due at once.
SchedStart(p) ==
    /\ clock = NotStarted
    /\ clock' = p
    /\ deadline' = p
    /\ UNCHANGED <<rule, local_now, tick_calls, day_calls,
                   last_arpwalk, last_enq, dup_call, nonSchedVars>>

\* run_scheduler lines 19-23: tick.tick() resolves at or after the deadline
\* (the next one is a period later), `now` is read.
SchedTick ==
    /\ clock # NotStarted
    /\ rule = 0
    /\ clock >= deadline
    /\ deadline' = deadline + Phases
    /\ local_now' = clock
    /\ rule' = NextMatch(0, clock)
    /\ tick_calls' = << >>
    /\ last_enq' = "none"
    /\ dup_call' = FALSE
    /\ UNCHANGED <<clock, day_calls, last_arpwalk, nonSchedVars>>

\* run_scheduler lines 28, 36, 44, 52, 60: the enqueue_job call of the rule
\* returns r; `waiting` are the actions that have a job queued or running
\* at that moment.
SchedEnqueue(r, waiting) ==
    /\ rule \in Rules
    /\ LET a == RuleAction(rule)
           called == Enqueues(rule, waiting)
           today == local_now >= 0 /\ local_now < DayLen
       IN /\ tick_calls' = IF called THEN Append(tick_calls, a) ELSE tick_calls
          /\ last_enq' = IF called THEN r ELSE last_enq
          /\ dup_call' = (called /\ a \in waiting)
          /\ day_calls' = IF called /\ today /\ a \in DOMAIN day_calls
                          THEN [day_calls EXCEPT ![a] = @ + 1] ELSE day_calls
          /\ last_arpwalk' = IF called /\ a = "arpwalk"
                             THEN minutes_of(local_now) ELSE last_arpwalk
    /\ rule' = AfterEnqueue(r, rule, local_now)
    /\ UNCHANGED <<clock, deadline, local_now, nonSchedVars>>

SchedNext ==
    \/ Tock
    \/ \E p \in (-Phases)..(-1) : SchedStart(p)
    \/ SchedTick
    \/ \E r \in {"Ok", "Err"}, waiting \in SUBSET SchedActions :
          SchedEnqueue(r, waiting)

SchedSpec == Init /\ [][SchedNext]_vars

\* the actions of the rules before rule `upto` whose condition holds for the
\* reading t, in the order of the rules
ExpectedCalls(t, upto) ==
    LET test(i) == i < upto /\ Matches(i, hour_of(t), minute_of(t))
        idx == SelectSeq(<<1, 2, 3, 4, 5>>, test)
    IN  [k \in 1..Len(idx) |-> RuleAction(idx[k])]

\* C15: on every tick the scheduler makes one enqueue_job call for each rule
\* whose condition holds for the hour and minute it read, in the order of the
\* rules, whatever jobs are queued or running, and none for the other rules
\* (so none at all when no rule matches); a call that failed is followed by
\* the next rule or the next tick, the loop never ends.
C15_OneCallPerMatchingRule ==
    /\ rule \in 0..5
    /\ rule # 0 => Matches(rule, hour_of(local_now), minute_of(local_now))
    /\ local_now # NotStarted =>
          tick_calls = ExpectedCalls(local_now, IF rule = 0 THEN 6 ELSE rule)

\* C15 witness: on the tick of 08:00 the macwalk call was made with a
\* macwalk job in the queue and failed, and the nbtwalk call is next.
C15_Witness ==
    /\ hour_of(local_now) = 8 /\ minute_of(local_now) = 0
    /\ rule = 4 /\ tick_calls = <<"macwalk">>
    /\ last_enq = "Err" /\ dup_call

\* a step in which the enqueue_job call for arpwalk is made
ArpwalkCall == rule = 3 /\ rule' # 3

\* C16 as stated: two consecutive arpwalk enqueue calls are 50 minutes apart.
C16_ArpwalkEvery50Minutes ==
    [][ArpwalkCall /\ last_arpwalk # NoCall =>
          minutes_of(local_now) - last_arpwalk = 50]_vars

\* What the rule `minute == 50` gives: arpwalk is enqueued on ticks that read
\* minute 50 of an hour, so two consecutive calls lie a whole number of hours
\* apart (none when two ticks read the same minute).
C16_ArpwalkAtMinute50 ==
    [][ArpwalkCall =>
          /\ minute_of(local_now) = 50
          /\ last_arpwalk # NoCall =>
                (minutes_of(local_now) - last_arpwalk) % MinutesPerHour = 0]_vars

\* the scheduler has finished a tick that read a time after the day watched
DayOver == local_now >= DayLen /\ rule = 0

\* C17 as stated: a scheduler that ran through the day made exactly one
\* discoverall call and exactly one expire call on ticks of that day.
C17_DailyJobsExactlyOnce ==
    DayOver => day_calls.discoverall = 1 /\ day_calls.expire = 1

\* What holds: discoverall is called only on ticks that read 07:05 and expire
\* only on ticks that read 23:30, once per such tick.
C17_DailyJobsOnlyInTheirMinute ==
    [][/\ day_calls'.discoverall # day_calls.discoverall =>
             /\ hour_of(local_now) = 7 /\ minute_of(local_now) = 5
             /\ day_calls'.discoverall = day_calls.discoverall + 1
       /\ day_calls'.expire # day_calls.expire =>
             /\ hour_of(local_now) = 23 /\ minute_of(local_now) = 30
             /\ day_calls'.expire = day_calls.expire + 1]_vars


\* ---- execute_job of single-device jobs and the ACL (JobSpec) --------------
\* src/backend/manager.rs execute_job, src/worker/{discover,macsuck,arpnip}.rs,
\* src/util/permission.rs

\* device addresses of jobs, as the text of ip.ip().to_string()
Ips == {"10.0.0.1", "10.0.0.2", "2001:db8::1"}

\* entries of discover_only/discover_no, macsuck_*, arpnip_* in the
\* configuration
AclEntries == {"group:__ANY__", "0.0.0.0/0", "::/0", "10.0.0.1", "10.0.0.2",
               "10.0.0.0/30", "2001:db8::1", "2001:db8::/32", "group:core"}

AclLists == UNION {[1..n -> AclEntries] : n \in 0..MaxAclLen}

\* the actions execute_job gives a device to, and one that takes none
JobActions == {"discover", "macsuck", "arpnip", "delete", "show"}
AclActions == {"discover", "macsuck", "arpnip"}

\* IpAddr of an address text: family and the low bits of the address
ip_addr(text) ==
    CASE text = "10.0.0.1"    -> [fam |-> 4, addr |-> 1]
      [] text = "10.0.0.2"    -> [fam |-> 4, addr |-> 2]
      [] text = "2001:db8::1" -> [fam |-> 6, addr |-> 1]

\* entry.parse::<IpNetwork>(): Ok(network) for an address or a CIDR text
\* (an address is the network of its own, no host bits), Err for any other
\* text.  host is the number of host bits the mask leaves free, counted in
\* the low 8 bits of the address the model keeps.
parse_IpNetwork(entry) ==
    CASE entry = "0.0.0.0/0"     -> [ok |-> TRUE, fam |-> 4, addr |-> 0, host |-> 8]
      [] entry = "::/0"          -> [ok |-> TRUE, fam |-> 6, addr |-> 0, host |-> 8]
      [] entry = "10.0.0.1"      -> [ok |-> TRUE, fam |-> 4, addr |-> 1, host |-> 0]
      [] entry = "10.0.0.2"      -> [ok |-> TRUE, fam |-> 4, addr |-> 2, host |-> 0]
      [] entry = "10.0.0.0/30"   -> [ok |-> TRUE, fam |-> 4, addr |-> 0, host |-> 2]
      [] entry = "2001:db8::1"   -> [ok |-> TRUE, fam |-> 6, addr |-> 1, host |-> 0]
      [] entry = "2001:db8::/32" -> [ok |-> TRUE, fam |-> 6, addr |-> 0, host |-> 8]
      [] OTHER                   -> [ok |-> FALSE, fam |-> 0, addr |-> 0, host |-> 0]

\* IpNetwork::contains: same family and same bits under the mask
contains(network, a) ==
    /\ network.fam = a.fam
    /\ network.addr \div (2 ^ network.host) = a.addr \div (2 ^ network.host)

\* acl_matches, the body of the loop for one entry
entry_matches(ip, entry) ==
    \/ entry = "group:__ANY__" \/ entry = "0.0.0.0/0" \/ entry = "::/0"
    \/ LET network == parse_IpNetwork(entry)
       IN  network.ok /\ contains(network, ip_addr(ip))
    \/ entry = ip

\* acl_matches: the first matching entry returns true, the end of the list
\* false
RECURSIVE acl_matches(_, _)
acl_matches(ip, acl) ==
    IF acl = << >> THEN FALSE
    ELSE IF entry_matches(ip, Head(acl)) THEN TRUE
    ELSE acl_matches(ip, Tail(acl))

acl_matches_only(ip, only) == IF only = << >> THEN TRUE ELSE acl_matches(ip, only)

acl_matches_no(ip, no) == IF no = << >> THEN FALSE ELSE acl_matches(ip, no)

\* Mutant of is_permitted: an allow match wins over a deny match.
is_permitted_AllowFirst(ip, only, no) ==
    IF only # << >> /\ acl_matches(ip, only) THEN TRUE
    ELSE IF acl_matches_no(ip, no) THEN FALSE
    ELSE acl_matches_only(ip, only)

\* Mutant of is_permitted: an empty allow list permits nothing.
is_permitted_EmptyAllowDenies(ip, only, no) ==
    IF acl_matches_no(ip, no) THEN FALSE ELSE acl_matches(ip, only)

is_permitted(ip, only, no) ==
    IF acl_matches_no(ip, no) THEN FALSE ELSE acl_matches_only(ip, only)

\* Mutant of AfterDispatch: a job without a device goes on to the routine.
AfterDispatch_NoDeviceCheck(action, device) ==
    CASE action \in AclActions -> "acl"
      [] action = "delete"     -> "store"
      [] OTHER                 -> "returned"

\* execute_job, match action: where a job goes from the dispatch.  The arms
\* of the single-device actions return Err at once when job.device is None.
AfterDispatch(action, device) ==
    CASE action \in AclActions -> IF device = NULL THEN "returned" ELSE "acl"
      [] action = "delete"     -> IF device = NULL THEN "returned" ELSE "store"
      [] OTHER                 -> "returned"

\* Mutant of AfterAcl: the result of the ACL check is ignored.
AfterAcl_Ignore(out) == "snmp"

\* discover_device / macsuck_device / arpnip_device, the first statement:
\* `if !is_permitted(..) { return Err(..) }`
AfterAcl(out) == IF out = "permit" THEN "snmp" ELSE "returned"

\* the Err a job that fails at the dispatch or at the ACL returns
FailFastErr(action, device) ==
    [res |-> "OkErr",
     log |-> IF device = NULL
             THEN CASE action = "discover" -> "discover requires a device IP"
                    [] action = "macsuck"  -> "macsuck requires a device IP"
                    [] action = "arpnip"   -> "arpnip requires a device IP"
                    [] action = "delete"   -> "delete requires a device IP"
             ELSE CASE action = "discover" -> "Device {} is not permitted by discover ACL"
                    [] action = "macsuck"  -> "Device {} is not permitted by macsuck ACL"
                    [] action = "arpnip"   -> "Device {} is not permitted by arpnip ACL"]

\* the Ok a routine that ran to its end returns
RoutineOk(action) ==
    [res |-> "OkOk",
     log |-> CASE action = "discover" -> "Discovered {} with {} interfaces"
               [] action = "macsuck"  -> "Macsuck {}: stored {} of {} MACs"
               [] action = "arpnip"   -> "Arpnip {}: stored {} of {} entries"
               [] action = "delete"   -> "Deleted device {}"
               [] OTHER               -> "Action '{}' completed (placeholder)"]

\* the tables a routine writes rows of (delete: removes rows of)
TablesOf(action) ==
    CASE action = "discover" -> {"device", "device_port"}
      [] action = "macsuck"  -> {"node"}
      [] action = "arpnip"   -> {"node_ip"}
      [] action = "delete"   -> {"node", "device_port", "device_ip", "admin", "device"}
      [] OTHER               -> {}

\* run_worker took a job off the queue and calls execute_job under timeout
JobStart(action, device) ==
    /\ ej_pc \in {"idle", "completed"}
    /\ ej_pc' = "dispatch"
    /\ ej_job' = [job |-> 1, action |-> action, device |-> device]
    /\ ej_result' = NoResult
    /\ ej_call' = NoCallArgs
    /\ acl_in' = NoAcl
    /\ acl_out' = "none"
    /\ snmp_requests' = 0
    /\ rows_written' = {}
    /\ UNCHANGED nonJobVars

\* execute_job, match action
Dispatch ==
    /\ ej_pc = "dispatch"
    /\ ej_pc' = AfterDispatch(ej_job.action, ej_job.device)
    /\ ej_result' =
         IF ej_pc' # "returned" THEN ej_result
         ELSE IF ej_job.action \in AclActions \cup {"delete"}
              THEN FailFastErr(ej_job.action, NULL)
              ELSE RoutineOk(ej_job.action)
    /\ UNCHANGED <<ej_job, ej_call, acl_in, acl_out, snmp_requests,
                   rows_written, nonJobVars>>

\* the routine calls is_permitted with the lists of the configuration
AclCheck(only, no) ==
    /\ ej_pc = "acl"
    /\ ej_pc' = "acl_done"
    /\ acl_in' = [ip |-> ej_job.device, only |-> only, no |-> no]
    /\ acl_out' = IF is_permitted(ej_job.device, only, no)
                  THEN "permit" ELSE "reject"
    /\ UNCHANGED <<ej_job, ej_result, ej_call, snmp_requests, rows_written,
                   nonJobVars>>

\* `if !is_permitted(..) { return Err(..) }`
AclBranch ==
    /\ ej_pc = "acl_done"
    /\ ej_pc' = AfterAcl(acl_out)
    /\ ej_result' = IF ej_pc' = "returned"
                    THEN FailFastErr(ej_job.action, ej_job.device)
                    ELSE ej_result
    /\ acl_in' = NoAcl
    /\ UNCHANGED <<ej_job, ej_call, acl_out, snmp_requests, rows_written,
                   nonJobVars>>

\* SnmpClient::new: "{host}:{port}".parse::<SocketAddr>() takes an IPv4
\* host and fails on an IPv6 host, which it would need in brackets
socket_addr_ok(host) == ip_addr(host).fam = 4

\* the Err of a routine whose SNMP part fails: the text of the outermost
\* context of the error
SnmpErr(action, stage) ==
    [res |-> "OkErr",
     log |-> IF stage = "client"
             THEN CASE action = "discover" -> "Failed to create SNMP client"
                    [] OTHER               -> "Invalid SNMP target: {}:{}"
             ELSE CASE action = "discover" -> "Failed to get system info"
                    [] action = "macsuck"  -> "Failed to get MAC table"
                    [] OTHER               -> "Failed to get ARP table"]

\* SnmpClient::from_config(..)? fails before any request is sent
SnmpClientErr ==
    /\ ej_pc = "snmp"
    /\ ~socket_addr_ok(ej_job.device)
    /\ ej_pc' = "returned"
    /\ ej_result' = SnmpErr(ej_job.action, "client")
    /\ UNCHANGED <<ej_job, ej_call, acl_in, acl_out, snmp_requests,
                   rows_written, nonJobVars>>

\* client.get_system_info() / get_mac_table() / get_arp_table(): a request
\* is sent; the exchange fails (the routine returns the Err), or more
\* requests follow, or the routine goes on to store what it read
SnmpRequest(next) ==
    /\ ej_pc = "snmp"
    /\ socket_addr_ok(ej_job.device)
    /\ snmp_requests < MaxSnmpRequests
    /\ snmp_requests' = snmp_requests + 1
    /\ ej_pc' = next
    /\ ej_result' = IF next = "returned"
                    THEN SnmpErr(ej_job.action, "request")
                    ELSE ej_result
    /\ UNCHANGED <<ej_job, ej_call, acl_in, acl_out, rows_written,
                   nonJobVars>>

\* db::upsert_device / upsert_node / upsert_node_ip / delete_device
Store(r) ==
    /\ ej_pc = "store"
    /\ rows_written' = rows_written \cup TablesOf(ej_job.action)
    /\ ej_pc' = "returned"
    /\ ej_result' = IF r = "Ok" THEN RoutineOk(ej_job.action)
                    ELSE [res |-> "OkErr", log |-> "database error"]
    /\ UNCHANGED <<ej_job, ej_call, acl_in, acl_out, snmp_requests,
                   nonJobVars>>

\* the deadline of tokio::time::timeout passes while the routine waits for
\* the network or the database
JobElapsed ==
    /\ ej_pc \in {"snmp", "store"}
    /\ ej_pc' = "returned"
    /\ ej_result' = [res |-> "Elapsed", log |-> NULL]
    /\ UNCHANGED <<ej_job, ej_call, acl_in, acl_out, snmp_requests,
                   rows_written, nonJobVars>>

\* run_worker, match result: complete_job(job, status, log)
JobComplete ==
    /\ ej_pc = "returned"
    /\ ej_pc' = "completed"
    /\ ej_call' = CompleteArgs(ej_result)[1]
    /\ UNCHANGED <<ej_job, ej_result, acl_in, acl_out, snmp_requests,
                   rows_written, nonJobVars>>

JobNext ==
    \/ \E action \in JobActions, device \in Ips \cup {NULL} :
         JobStart(action, device)
    \/ Dispatch
    \/ /\ ej_pc = "acl"
       /\ \E only \in AclLists, no \in AclLists : AclCheck(only, no)
    \/ AclBranch
    \/ SnmpClientErr
    \/ \E next \in {"snmp", "store", "returned"} : SnmpRequest(next)
    \/ \E r \in {"Ok", "Err"} : Store(r)
    \/ JobElapsed
    \/ JobComplete

JobSpec == Init /\ [][JobNext]_vars

\* the job in hand has no device although its action needs one, or its
\* routine's ACL check has rejected the device
FailsFast ==
    \/ /\ ej_job.action \in AclActions \cup {"delete"}
       /\ ej_job.device = NULL
       /\ ej_pc # "dispatch"
    \/ /\ ej_job.action \in AclActions
       /\ acl_out = "reject"

\* C18: a single-device job (discover, macsuck, arpnip, delete) without a
\* device address, and a discover, macsuck or arpnip whose ACL check rejects
\* the device, never reaches the SNMP or the storing part of its routine: no
\* SNMP request is sent and no row is written for it; it returns Err with
\* the message of the check that failed, and run_worker's only complete_job
\* call for it has status "error" (never "queued": it is not retried).
C18_FailFastNoSnmpNoRows ==
    FailsFast =>
      /\ snmp_requests = 0
      /\ rows_written = {}
      /\ ej_pc \in {"acl_done", "returned", "completed"}
      /\ ej_pc \in {"returned", "completed"} =>
           ej_result = FailFastErr(ej_job.action, ej_job.device)
      /\ ej_pc = "completed" =>
           ej_call = [status |-> "error", log |-> ej_result.log]
      /\ ej_pc # "completed" => ej_call = NoCallArgs

C18_Witness ==
    /\ ej_pc = "completed"
    /\ ej_job.action = "macsuck"
    /\ ej_job.device \in Ips
    /\ acl_out = "reject"
    /\ ej_call = [status |-> "error",
                  log |-> "Device {} is not permitted by macsuck ACL"]
    /\ snmp_requests = 0
    /\ rows_written = {}

\* C19: for every address and every allow ("only") and deny ("no") list,
\* is_permitted is true exactly when the address matches no deny entry and
\* the allow list is empty or the address matches one of its entries; so
\* with both lists empty it is true, with the address itself in the deny
\* list it is false whatever the allow list, and with a non-empty allow
\* list none of whose entries matches it is false.
C19_IsPermitted ==
    ej_pc = "acl_done" =>
      LET ip   == acl_in.ip
          only == acl_in.only
          no   == acl_in.no
          denied  == \E i \in DOMAIN no : entry_matches(ip, no[i])
          allowed == \E i \in DOMAIN only : entry_matches(ip, only[i])
      IN  /\ (acl_out = "permit") <=> (~denied /\ (only = << >> \/ allowed))
          /\ (only = << >> /\ no = << >>) => acl_out = "permit"
          /\ (\E i \in DOMAIN no : no[i] = ip) => acl_out = "reject"
          /\ (only # << >> /\ ~allowed) => acl_out = "reject"

C19_Witness ==
    /\ ej_pc = "acl_done"
    /\ acl_in.ip = "10.0.0.2"
    /\ acl_in.only = <<"group:core", "10.0.0.0/30">>
    /\ acl_in.no = <<"2001:db8::/32", "10.0.0.2">>
    /\ acl_out = "reject"


\* ---- the BER decoder of responses (BerSpec) -------------------------------
\* src/snmp/client.rs: BER Parsing Helpers, parse_snmp_response, build_pdu

TagInteger     == 2      \* 0x02 INTEGER
TagOctetString == 4      \* 0x04 OCTET STRING
TagOid         == 6      \* 0x06 OBJECT IDENTIFIER
TagSequence    == 48     \* 0x30 SEQUENCE
TagGetResponse == 162    \* 0xa2 GetResponse-PDU
TagNoSuchObject   == 128 \* 0x80
TagNoSuchInstance == 129 \* 0x81
TagEndOfMibView   == 130 \* 0x82

\* what a reading helper returns: Ok(val) with the position after what it
\* read, or Err(err)
ReadOk(val, pos) == [ok |-> TRUE, err |-> NULL, val |-> val, pos |-> pos]
ReadErr(err) == [ok |-> FALSE, err |-> err, val |-> 0, pos |-> 0]

\* what parse_snmp_response returns: Ok(varbinds) or Err(err); an Err of
\* the error-status test carries the two values its text is formatted from
DecodeOk(varbinds) ==
    [ok |-> TRUE, err |-> NULL, error_status |-> 0, error_name |-> NULL,
     varbinds |-> varbinds]
DecodeErr(err) ==
    [ok |-> FALSE, err |-> err, error_status |-> 0, error_name |-> NULL,
     varbinds |-> << >>]

\* data[pos], data a 1-based sequence and pos a 0-based index
At(data, pos) == data[pos + 1]

\* data[from..to]
Slice(data, from, to) == [i \in 1..(to - from) |-> data[from + i]]

read_tag(data, pos) ==
    IF pos >= Len(data)
    THEN ReadErr("BER: unexpected end of data reading tag")
    ELSE ReadOk(At(data, pos), pos + 1)

\* the loop of read_length: len = (len << 8) | data[pos + i]
RECURSIVE be_length(_, _, _, _)
be_length(data, pos, num_bytes, len) ==
    IF num_bytes = 0 THEN len
    ELSE be_length(data, pos + 1, num_bytes - 1, len * 256 + At(data, pos))

read_length(data, pos) ==
    IF pos >= Len(data)
    THEN ReadErr("BER: unexpected end of data reading length")
    ELSE LET first == At(data, pos)
             num_bytes == first % 128
         IN  IF first < 128 THEN ReadOk(first, pos + 1)
             ELSE IF num_bytes > 4 \/ pos + 1 + num_bytes > Len(data)
             THEN ReadErr("BER: invalid length encoding")
             ELSE ReadOk(be_length(data, pos + 1, num_bytes, 0),
                         pos + 1 + num_bytes)

skip_tlv(data, pos) ==
    LET tag == read_tag(data, pos) IN
    IF ~tag.ok THEN tag ELSE
    LET len == read_length(data, tag.pos) IN
    IF ~len.ok THEN len ELSE
    IF len.pos + len.val > Len(data)
    THEN ReadErr("BER: value extends past end of data")
    ELSE ReadOk(0, len.pos + len.val)

\* Ok((tag, value)): val is the record of both
read_tlv_value(data, pos) ==
    LET tag == read_tag(data, pos) IN
    IF ~tag.ok THEN tag ELSE
    LET len == read_length(data, tag.pos) IN
    IF ~len.ok THEN len ELSE
    IF len.pos + len.val > Len(data)
    THEN ReadErr("BER: value extends past end of data")
    ELSE ReadOk([tag |-> tag.val,
                 value |-> Slice(data, len.pos, len.pos + len.val)],
                len.pos + len.val)

\* decode_oid, the loops over the bytes after the first: component is the
\* number read so far and in_component says that its last byte had the
\* continuation bit
RECURSIVE decode_components(_, _, _, _, _)
decode_components(data, i, component, in_component, oid) ==
    IF i >= Len(data)
    THEN IF in_component THEN ReadErr("BER: truncated OID component")
         ELSE ReadOk(oid, i)
    ELSE LET byte == At(data, i)
             c == component * 128 + (byte % 128)
         IN  IF byte >= 128
             THEN decode_components(data, i + 1, c, TRUE, oid)
             ELSE decode_components(data, i + 1, 0, FALSE, Append(oid, c))

decode_oid(data) ==
    IF data = << >> THEN ReadErr("BER: empty OID")
    ELSE decode_components(data, 1, 0, FALSE,
                           <<At(data, 0) \div 40, At(data, 0) % 40>>)

\* parse_snmp_response, `match error_status`
error_name(error_status) ==
    CASE error_status = 1 -> "tooBig"
      [] error_status = 2 -> "noSuchName"
      [] error_status = 3 -> "badValue"
      [] error_status = 4 -> "readOnly"
      [] error_status = 5 -> "genErr"
      [] error_status = 6 -> "noAccess"
      [] error_status = 7 -> "wrongType"
      [] OTHER            -> "unknown"

\* Mutant of parse_varbinds: a varbind whose value is an exception is
\* returned like any other.
RECURSIVE parse_varbinds_KeepExceptions(_, _, _, _)
parse_varbinds_KeepExceptions(data, pos, varbind_list_end, acc) ==
    IF ~(pos < varbind_list_end /\ pos < Len(data)) THEN DecodeOk(acc)
    ELSE
    LET tag == read_tag(data, pos) IN
    IF ~tag.ok THEN DecodeErr(tag.err) ELSE
    IF tag.val # TagSequence THEN DecodeOk(acc) ELSE
    LET varbind_len == read_length(data, tag.pos) IN
    IF ~varbind_len.ok THEN DecodeErr(varbind_len.err) ELSE
    LET oid_tlv == read_tlv_value(data, varbind_len.pos) IN
    IF ~oid_tlv.ok THEN DecodeErr(oid_tlv.err) ELSE
    IF oid_tlv.val.tag # TagOid
    THEN DecodeErr("SNMP: expected OID tag (0x06), got 0x{:02x}") ELSE
    LET oid == decode_oid(oid_tlv.val.value) IN
    IF ~oid.ok THEN DecodeErr(oid.err) ELSE
    LET value == read_tlv_value(data, oid_tlv.pos) IN
    IF ~value.ok THEN DecodeErr(value.err) ELSE
    parse_varbinds_KeepExceptions(data, value.pos, varbind_list_end,
                                  Append(acc, [oid |-> oid.val,
                                               value |-> value.val.value]))

\* parse_snmp_response, the while loop over the varbinds; acc is the Vec
\* `results` of the code
RECURSIVE parse_varbinds(_, _, _, _)
parse_varbinds(data, pos, varbind_list_end, acc) ==
    IF ~(pos < varbind_list_end /\ pos < Len(data)) THEN DecodeOk(acc)
    ELSE
    LET tag == read_tag(data, pos) IN
    IF ~tag.ok THEN DecodeErr(tag.err) ELSE
    IF tag.val # TagSequence THEN DecodeOk(acc) ELSE
    LET varbind_len == read_length(data, tag.pos) IN
    IF ~varbind_len.ok THEN DecodeErr(varbind_len.err) ELSE
    LET oid_tlv == read_tlv_value(data, varbind_len.pos) IN
    IF ~oid_tlv.ok THEN DecodeErr(oid_tlv.err) ELSE
    IF oid_tlv.val.tag # TagOid
    THEN DecodeErr("SNMP: expected OID tag (0x06), got 0x{:02x}") ELSE
    LET oid == decode_oid(oid_tlv.val.value) IN
    IF ~oid.ok THEN DecodeErr(oid.err) ELSE
    LET value == read_tlv_value(data, oid_tlv.pos) IN
    IF ~value.ok THEN DecodeErr(value.err) ELSE
    IF value.val.tag \in {TagEndOfMibView, TagNoSuchObject, TagNoSuchInstance}
    THEN parse_varbinds(data, value.pos, varbind_list_end, acc)
    ELSE parse_varbinds(data, value.pos, varbind_list_end,
                        Append(acc, [oid |-> oid.val,
                                         value |-> value.val.value]))

parse_snmp_response(data) ==
    IF Len(data) < 2 THEN DecodeErr("SNMP response too short") ELSE
    LET tag == read_tag(data, 0) IN
    IF ~tag.ok THEN DecodeErr(tag.err) ELSE
    IF tag.val # TagSequence
    THEN DecodeErr("SNMP: expected SEQUENCE (0x30), got 0x{:02x}") ELSE
    LET msg_len == read_length(data, tag.pos) IN
    IF ~msg_len.ok THEN DecodeErr(msg_len.err) ELSE
    LET version == skip_tlv(data, msg_len.pos) IN
    IF ~version.ok THEN DecodeErr(version.err) ELSE
    LET community == skip_tlv(data, version.pos) IN
    IF ~community.ok THEN DecodeErr(community.err) ELSE
    LET pdu_tag == read_tag(data, community.pos) IN
    IF ~pdu_tag.ok THEN DecodeErr(pdu_tag.err) ELSE
    IF pdu_tag.val # TagGetResponse
    THEN DecodeErr("SNMP: expected GetResponse PDU (0xa2), got 0x{:02x}") ELSE
    LET pdu_len == read_length(data, pdu_tag.pos) IN
    IF ~pdu_len.ok THEN DecodeErr(pdu_len.err) ELSE
    LET request_id == skip_tlv(data, pdu_len.pos) IN
    IF ~request_id.ok THEN DecodeErr(request_id.err) ELSE
    LET es == read_tlv_value(data, request_id.pos) IN
    IF ~es.ok THEN DecodeErr(es.err) ELSE
    LET error_status_bytes == es.val.value
        error_status == IF Len(error_status_bytes) = 1
                        THEN error_status_bytes[1] ELSE 0
    IN
    IF error_status # 0
    THEN [ok |-> FALSE, err |-> "SNMP error-status: {} ({})",
          error_status |-> error_status,
          error_name |-> error_name(error_status), varbinds |-> << >>]
    ELSE
    LET error_index == skip_tlv(data, es.pos) IN
    IF ~error_index.ok THEN DecodeErr(error_index.err) ELSE
    LET vtag == read_tag(data, error_index.pos) IN
    IF ~vtag.ok THEN DecodeErr(vtag.err) ELSE
    IF vtag.val # TagSequence
    THEN DecodeErr("SNMP: expected VarBindList SEQUENCE, got 0x{:02x}") ELSE
    LET varbind_list_len == read_length(data, vtag.pos) IN
    IF ~varbind_list_len.ok THEN DecodeErr(varbind_list_len.err) ELSE
    parse_varbinds(data, varbind_list_len.pos,
                   varbind_list_len.pos + varbind_list_len.val, << >>)

\* -- the encoding of a message --

\* Mutant of encode_length: the short form is used up to 128.
encode_length_ShortTo128(len) ==
    IF len <= 128 THEN <<len>>
    ELSE IF len < 256 THEN <<129, len>>
    ELSE <<130, len \div 256, len % 256>>

\* encode_length: the bytes pushed for a length below 65536
encode_length(len) ==
    IF len < 128 THEN <<len>>
    ELSE IF len < 256 THEN <<129, len>>
    ELSE <<130, len \div 256, len % 256>>

\* a tag, the length of the content, the content
Tlv(tag, content) == <<tag>> \o encode_length(Len(content)) \o content

\* the base-128 digits of a component, the most significant first, every
\* byte but the last with the continuation bit
RECURSIVE encode_component(_, _)
encode_component(val, last) ==
    LET byte == (val % 128) + (IF last THEN 0 ELSE 128)
    IN  IF val \div 128 = 0 THEN <<byte>>
        ELSE encode_component(val \div 128, FALSE) \o <<byte>>

RECURSIVE encode_components(_)
encode_components(comps) ==
    IF comps = << >> THEN << >>
    ELSE encode_component(Head(comps), TRUE) \o encode_components(Tail(comps))

\* build_pdu, "Encode OID": the content bytes of an OID
encode_oid(oid) ==
    IF Len(oid) >= 2
    THEN <<(oid[1] * 40 + oid[2]) % 256>> \o encode_components(Tail(Tail(oid)))
    ELSE << >>

\* n.to_be_bytes() cut to its low `width` bytes
RECURSIVE be_bytes(_, _)
be_bytes(n, width) ==
    IF width = 0 THEN << >>
    ELSE be_bytes(n \div 256, width - 1) \o <<n % 256>>

\* the content of a BER INTEGER of `width` bytes: two's complement, the most
\* significant byte first
encode_integer(v, width) ==
    be_bytes(IF v < 0 THEN v + 256 ^ width ELSE v, width)

\* the agent can encode v in `width` content bytes
FitsIn(v, width) ==
    /\ v >= -(256 ^ width) \div 2
    /\ v < (256 ^ width) \div 2

\* the error-status values of the agents: noError, the codes of SNMPv1
\* (1 to 5) and of SNMPv2 (to 18), values no standard names
ErrorStatuses == {-1, 0, 1, 2, 3, 4, 5, 6, 7, 8, 18, 127, 128, 255, 256}

\* the varbinds of the agents: a value, and an SNMPv2 exception
Varbinds ==
    { [oid |-> <<1, 3, 6, 1, 2, 1, 1, 5, 0>>, tag |-> TagOctetString,
       value |-> <<114, 49>>],
      [oid |-> <<1, 3, 6, 1, 2, 1, 2, 2, 1, 2, 300>>, tag |-> TagEndOfMibView,
       value |-> << >>] }

VarbindLists == UNION {[1..n -> Varbinds] : n \in 0..MaxVarbinds}

RECURSIVE encode_varbinds(_)
encode_varbinds(vbs) ==
    IF vbs = << >> THEN << >>
    ELSE Tlv(TagSequence, Tlv(TagOid, encode_oid(Head(vbs).oid))
                          \o Tlv(Head(vbs).tag, Head(vbs).value))
         \o encode_varbinds(Tail(vbs))

\* a GetResponse message laid out as build_pdu lays out a request: version,
\* community, PDU of request-id, error-status, error-index, VarBindList
Response(error_status, width, vbs) ==
    Tlv(TagSequence,
        Tlv(TagInteger, <<1>>)
        \o Tlv(TagOctetString, <<112, 117, 98, 108, 105, 99>>)
        \o Tlv(TagGetResponse,
               Tlv(TagInteger, <<0, 0, 48, 57>>)
               \o Tlv(TagInteger, encode_integer(error_status, width))
               \o Tlv(TagInteger, <<IF error_status = 0 THEN 0 ELSE 1>>)
               \o Tlv(TagSequence, encode_varbinds(vbs))))

\* send_receive: socket.recv puts the agent's response in the buffer
BerReceive(error_status, width, vbs) ==
    /\ ber_pc = "idle"
    /\ FitsIn(error_status, width)
    /\ ber_pc' = "received"
    /\ datagram' = Response(error_status, width, vbs)
    /\ decoded' = NoDecode
    /\ agent_status' = error_status
    /\ agent_width' = width
    /\ wire' = NoWire
    /\ UNCHANGED nonBerVars

\* get / get_next / get_bulk: parse_snmp_response(&response)
BerDecode ==
    /\ ber_pc = "received"
    /\ ber_pc' = "decoded"
    /\ decoded' = parse_snmp_response(datagram)
    /\ UNCHANGED <<datagram, agent_status, agent_width, wire, nonBerVars>>

\* get / get_next / get_bulk return the result to their caller; the buffer
\* is dropped and the next exchange starts with a new one
BerReturn ==
    /\ ber_pc = "decoded"
    /\ ber_pc' = "idle"
    /\ datagram' = << >>
    /\ decoded' = NoDecode
    /\ agent_status' = 0
    /\ agent_width' = 0
    /\ wire' = NoWire
    /\ UNCHANGED nonBerVars

\* -- datagrams that are not an agent's whole well-formed response --

\* the varbinds on the wire, the OID as its content bytes: two values, the
\* three SNMPv2 exceptions, and an OID whose last byte has the continuation
\* bit
WireVarbinds ==
    { [oid_bytes |-> encode_oid(<<1, 3, 6, 1, 2, 1, 1, 5, 0>>),
       tag |-> TagOctetString, value |-> <<114, 49>>],
      [oid_bytes |-> encode_oid(<<1, 3, 6, 1, 2, 1, 2, 2, 1, 2, 300>>),
       tag |-> TagInteger, value |-> <<7>>],
      [oid_bytes |-> encode_oid(<<1, 3, 6, 1, 2, 1, 1, 6, 0>>),
       tag |-> TagNoSuchObject, value |-> << >>],
      [oid_bytes |-> encode_oid(<<1, 3, 6, 1, 2, 1, 1, 7, 0>>),
       tag |-> TagNoSuchInstance, value |-> << >>],
      [oid_bytes |-> encode_oid(<<1, 3, 6, 1, 2, 1, 2, 2, 1, 2, 301>>),
       tag |-> TagEndOfMibView, value |-> << >>],
      [oid_bytes |-> <<43, 6, 129>>,
       tag |-> TagOctetString, value |-> <<114, 49>>] }

WireVarbindLists == UNION {[1..n -> WireVarbinds] : n \in 0..MaxVarbinds}

\* the tags a message can carry where parse_snmp_response reads the outer
\* SEQUENCE, the version, the community and the PDU
WireTags ==
    {TagSequence, 49} \X {TagInteger, TagOctetString}
    \X {TagOctetString, TagInteger} \X {TagGetResponse, 160}

GoodTags == <<TagSequence, TagInteger, TagOctetString, TagGetResponse>>

RECURSIVE encode_wire_varbinds(_)
encode_wire_varbinds(vbs) ==
    IF vbs = << >> THEN << >>
    ELSE Tlv(TagSequence, Tlv(TagOid, Head(vbs).oid_bytes)
                          \o Tlv(Head(vbs).tag, Head(vbs).value))
         \o encode_wire_varbinds(Tail(vbs))

\* a message of the layout of Response with the given four tags, noError
Message(tags, vbs) ==
    Tlv(tags[1],
        Tlv(tags[2], <<1>>)
        \o Tlv(tags[3], <<112, 117, 98, 108, 105, 99>>)
        \o Tlv(tags[4],
               Tlv(TagInteger, <<0, 0, 48, 57>>)
               \o Tlv(TagInteger, <<0>>)
               \o Tlv(TagInteger, <<0>>)
               \o Tlv(TagSequence, encode_wire_varbinds(vbs))))

\* send_receive: socket.recv puts in the buffer a message whose tags are
\* any of WireTags
BerReceiveTagged(tags, vbs) ==
    /\ ber_pc = "idle"
    /\ ber_pc' = "received"
    /\ datagram' = Message(tags, vbs)
    /\ decoded' = NoDecode
    /\ agent_status' = 0
    /\ agent_width' = 0
    /\ wire' = [kind |-> "tagged", tags |-> tags, vbs |-> vbs,
                cut |-> Len(datagram')]
    /\ UNCHANGED nonBerVars

\* send_receive: socket.recv puts in the buffer the first `cut` bytes of a
\* well-formed message, the rest lost
BerReceiveTruncated(vbs, cut) ==
    /\ ber_pc = "idle"
    /\ cut < Len(Message(GoodTags, vbs))
    /\ ber_pc' = "received"
    /\ datagram' = SubSeq(Message(GoodTags, vbs), 1, cut)
    /\ decoded' = NoDecode
    /\ agent_status' = 0
    /\ agent_width' = 0
    /\ wire' = [kind |-> "truncated", tags |-> GoodTags, vbs |-> vbs,
                cut |-> cut]
    /\ UNCHANGED nonBerVars

MaxMessageLen == Len(Message(GoodTags, [i \in 1..MaxVarbinds |->
                     CHOOSE v \in WireVarbinds :
                       \A w \in WireVarbinds :
                         Len(w.oid_bytes) + Len(w.value)
                           <= Len(v.oid_bytes) + Len(v.value)]))

BerNext ==
    \/ \E error_status \in ErrorStatuses, width \in 1..MaxIntWidth,
          vbs \in VarbindLists : BerReceive(error_status, width, vbs)
    \/ /\ ber_pc = "idle"
       /\ \E tags \in WireTags, vbs \in WireVarbindLists :
            BerReceiveTagged(tags, vbs)
    \/ /\ ber_pc = "idle"
       /\ \E vbs \in WireVarbindLists, cut \in 0..MaxMessageLen :
            BerReceiveTruncated(vbs, cut)
    \/ BerDecode
    \/ BerReturn

BerSpec == Init /\ [][BerNext]_vars

\* C20: the decoding of a response whose error-status is not zero fails and
\* returns no varbinds, and the failure names the condition: tooBig,
\* noSuchName, badValue, readOnly, genErr, noAccess, wrongType for the codes
\* 1 to 7 and unknown for any other code, in however many bytes the agent
\* encoded the error-status.
C20_NonZeroErrorStatusFails ==
    (ber_pc = "decoded" /\ agent_status # 0) =>
      /\ ~decoded.ok
      /\ decoded.varbinds = << >>
      /\ decoded.err = "SNMP error-status: {} ({})"
      /\ decoded.error_name = error_name(agent_status)

\* What the decoder does give: the claim for an error-status of one content
\* byte; and an error-status of any other length is read as noError, the
\* decoding going on to the varbinds.
C20_OneByteErrorStatusFails ==
    (ber_pc = "decoded" /\ agent_width >= 1) =>
      /\ (agent_status # 0 /\ agent_width = 1) =>
           /\ ~decoded.ok
           /\ decoded.varbinds = << >>
           /\ decoded.err = "SNMP error-status: {} ({})"
           /\ decoded.error_name = error_name(agent_status)
      /\ (agent_status = 0 \/ agent_width # 1) => decoded.ok


\* the texts of the failures parse_snmp_response returns (anyhow::bail!)
DecodeFailures ==
    { "SNMP response too short",
      "BER: unexpected end of data reading tag",
      "BER: unexpected end of data reading length",
      "BER: invalid length encoding",
      "BER: value extends past end of data",
      "BER: empty OID",
      "BER: truncated OID component",
      "SNMP: expected SEQUENCE (0x30), got 0x{:02x}",
      "SNMP: expected GetResponse PDU (0xa2), got 0x{:02x}",
      "SNMP error-status: {} ({})",
      "SNMP: expected VarBindList SEQUENCE, got 0x{:02x}",
      "SNMP: expected OID tag (0x06), got 0x{:02x}" }

\* the length field of the outer SEQUENCE (short form) says more bytes than
\* the buffer has after it
OuterLengthOverruns(data) ==
    /\ Len(data) >= 2
    /\ data[1] = TagSequence
    /\ data[2] < 128
    /\ data[2] > Len(data) - 2

\* the last byte of the OID has the continuation bit
OidTruncated(vb) == vb.oid_bytes[Len(vb.oid_bytes)] >= 128

\* the varbinds parse_snmp_response is to return for the varbinds vbs of a
\* response: those whose value is no exception, in order
RECURSIVE Returned(_)
Returned(vbs) ==
    IF vbs = << >> THEN << >>
    ELSE IF Head(vbs).tag \in {TagEndOfMibView, TagNoSuchObject, TagNoSuchInstance}
         THEN Returned(Tail(vbs))
         ELSE <<[oid |-> decode_oid(Head(vbs).oid_bytes).val,
                 value |-> Head(vbs).value]>> \o Returned(Tail(vbs))

\* C21: for every byte string the decoder is given it returns Ok or one of
\* its decode failures (it reads no byte at or past the end of the buffer
\* and does not panic), and it returns a failure when a TLV length says
\* more bytes than the buffer has left, and when the last byte of an OID
\* has the continuation bit.
C21_OverrunIsDecodeFailure ==
    ber_pc = "decoded" =>
      /\ decoded.ok \/ decoded.err \in DecodeFailures
      /\ OuterLengthOverruns(datagram) => ~decoded.ok
      /\ (wire.kind = "tagged" /\ wire.tags = GoodTags
            /\ \E i \in DOMAIN wire.vbs : OidTruncated(wire.vbs[i]))
           => ~decoded.ok

\* What the decoder does give.  It returns Ok or one of its failures for
\* every byte string; an OID whose last byte has the continuation bit is the
\* failure "truncated OID component"; a message cut inside a TLV is a
\* failure.  A message cut between two varbinds (or before the first) is
\* decoded as Ok with the varbinds before the cut, although the lengths of
\* its outer SEQUENCE, PDU and VarBindList say more bytes than the buffer
\* has: these three lengths are read and never compared with it.
C21_NoPanicPrimitiveOverrun ==
    ber_pc = "decoded" =>
      /\ decoded.ok \/ decoded.err \in DecodeFailures
      /\ (wire.kind = "tagged" /\ wire.tags = GoodTags
            /\ \E i \in DOMAIN wire.vbs : OidTruncated(wire.vbs[i]))
           => (~decoded.ok /\ decoded.err = "BER: truncated OID component")
      /\ wire.kind = "truncated" =>
           LET cuts == {k \in 0..Len(wire.vbs) :
                          wire.cut = Len(Message(GoodTags, SubSeq(wire.vbs, 1, k)))}
           IN  /\ cuts = {} => ~decoded.ok
               /\ \A k \in cuts :
                    (\A i \in 1..k : ~OidTruncated(wire.vbs[i])) =>
                      /\ decoded.ok
                      /\ decoded.varbinds = Returned(SubSeq(wire.vbs, 1, k))


\* C22: the decoding succeeds only for a message that has, in this order,
\* the outer SEQUENCE tag, an INTEGER version, an OCTET STRING community and
\* the GetResponse PDU tag: a message with another tag at one of the four
\* places is a decode failure.
C22_OnlyExpectedTagsDecode ==
    (ber_pc = "decoded" /\ wire.kind = "tagged") =>
      (decoded.ok => wire.tags = GoodTags)

\* What the decoder does give: the tags of the outer SEQUENCE and of the PDU
\* are tested; the version and the community are skipped by skip_tlv, which
\* reads their tag and drops it, so any tag is taken there.
C22_OuterAndPduTagsDecode ==
    (ber_pc = "decoded" /\ wire.kind = "tagged") =>
      /\ decoded.ok => (wire.tags[1] = TagSequence /\ wire.tags[4] = TagGetResponse)
      /\ wire.tags[1] # TagSequence =>
           decoded.err = "SNMP: expected SEQUENCE (0x30), got 0x{:02x}"
      /\ (wire.tags[1] = TagSequence /\ wire.tags[4] # TagGetResponse) =>
           decoded.err = "SNMP: expected GetResponse PDU (0xa2), got 0x{:02x}"
      /\ (wire.tags[1] = TagSequence /\ wire.tags[4] = TagGetResponse
            /\ \A i \in DOMAIN wire.vbs : ~OidTruncated(wire.vbs[i]))
           => decoded.ok


\* parse_get_response: the value of the first varbind
parse_get_response(data) ==
    LET varbinds == parse_snmp_response(data) IN
    IF ~varbinds.ok THEN [ok |-> FALSE, err |-> varbinds.err, value |-> << >>]
    ELSE IF varbinds.varbinds = << >>
    THEN [ok |-> FALSE, err |-> "SNMP GET: no varbind in response",
          value |-> << >>]
    ELSE [ok |-> TRUE, err |-> NULL, value |-> varbinds.varbinds[1].value]

\* parse_getnext_response, of the bytes of a datagram: the first varbind
parse_getnext_datagram(data) ==
    LET varbinds == parse_snmp_response(data) IN
    IF ~varbinds.ok
    THEN [ok |-> FALSE, err |-> varbinds.err, oid |-> << >>, value |-> << >>]
    ELSE IF varbinds.varbinds = << >>
    THEN [ok |-> FALSE, err |-> "SNMP GETNEXT: no varbind in response",
          oid |-> << >>, value |-> << >>]
    ELSE [ok |-> TRUE, err |-> NULL, oid |-> varbinds.varbinds[1].oid,
          value |-> varbinds.varbinds[1].value]

\* the datagram is a whole well-formed response, every OID of it complete
WellFormed ==
    /\ wire.kind = "tagged"
    /\ wire.tags = GoodTags
    /\ \A i \in DOMAIN wire.vbs : ~OidTruncated(wire.vbs[i])

TagGetRequest     == 160   \* 0xa0
TagGetNextRequest == 161   \* 0xa1
TagGetBulkRequest == 165   \* 0xa5
MaxU8  == 255              \* u8::MAX, of config.snmpver
MaxU16 == 65535            \* u16::MAX, of the request-id

\* impl From<u8> for SnmpVersion
SnmpVersion_from(v) ==
    CASE v = 1 -> "V1"
      [] v = 2 -> "V2c"
      [] OTHER -> "V3"

version_byte(version) ==
    CASE version = "V1"  -> 0
      [] version = "V2c" -> 1
      [] version = "V3"  -> 3

\* Mutant of effective_version: no fall back of v3.
effective_version_AsConfigured(version) == version

\* SnmpClient::effective_version, of self.credentials.version
effective_version(version) == IF version = "V3" THEN "V2c" ELSE version

\* build_pdu, "Find first non-zero byte for minimal encoding":
\* rep_bytes.iter().position(|&b| b != 0).unwrap_or(3), 0-based
first_nonzero(rep_bytes) ==
    IF \E i \in 1..4 : rep_bytes[i] # 0
    THEN (CHOOSE i \in 1..4 :
            rep_bytes[i] # 0 /\ \A j \in 1..(i - 1) : rep_bytes[j] = 0) - 1
    ELSE 3

\* build_pdu; request_id is the number rand::random::<u16>() gave and
\* max_repetitions is NoMaxRep for None
build_pdu(pdu_type, version, community, oid, max_repetitions, request_id) ==
    LET oid_value == encode_oid(oid)
        oid_bytes == <<TagOid>> \o encode_length(Len(oid_value)) \o oid_value
        varbind == <<TagSequence>> \o encode_length(Len(oid_bytes) + 2)
                   \o oid_bytes \o <<5, 0>>
        varbind_list == <<TagSequence>> \o encode_length(Len(varbind))
                        \o varbind
        rep_bytes == be_bytes(max_repetitions, 4)
        start == first_nonzero(rep_bytes)
        significant == SubSeq(rep_bytes, start + 1, 4)
        pdu_content ==
            <<TagInteger, 4>> \o be_bytes(request_id, 4)
            \o (IF max_repetitions # NoMaxRep
                THEN <<TagInteger, 1, 0>>
                     \o <<TagInteger>> \o <<Len(significant)>> \o significant
                ELSE <<TagInteger, 1, 0>> \o <<TagInteger, 1, 0>>)
            \o varbind_list
        pdu_bytes == <<pdu_type>> \o encode_length(Len(pdu_content))
                     \o pdu_content
        comm_bytes == <<TagOctetString>> \o encode_length(Len(community))
                      \o community
        message_content == <<TagInteger, 1, version_byte(version)>>
                           \o comm_bytes \o pdu_bytes
    IN  <<TagSequence>> \o encode_length(Len(message_content))
        \o message_content

build_get_pdu(version, community, oid, request_id) ==
    build_pdu(TagGetRequest, version, community, oid, NoMaxRep, request_id)

build_getnext_pdu(version, community, oid, request_id) ==
    build_pdu(TagGetNextRequest, version, community, oid, NoMaxRep, request_id)

build_getbulk_pdu(version, community, oid, max_repetitions, request_id) ==
    build_pdu(TagGetBulkRequest, version, community, oid, max_repetitions,
              request_id)

\* the community of the configuration: "public"
Community == <<112, 117, 98, 108, 105, 99>>

\* the arcs of the OIDs asked for: small ones, the ends of the one-, two-
\* and three-byte forms, the largest the model's integers hold
Arcs == {0, 1, 127, 128, 16383, 16384, 2147483647}

\* OIDs of ITU-T (0), ISO (1) and joint (2) roots; the second arc is below
\* 40 under the roots 0 and 1 and any number under the root 2
RequestOids ==
    {o \in UNION {[1..n -> Arcs \cup {2, 3, 6, 39, 40, 999}] : n \in 2..MaxArcs} :
       /\ o[1] \in {0, 1, 2}
       /\ o[1] < 2 => o[2] < 40
       /\ o[2] <= 16384
       /\ \A i \in 3..Len(o) : o[i] \in Arcs}

\* the max_repetitions of callers of get_bulk (u32, as far as the model's
\* integers hold them)
MaxRepetitions ==
    {0, 1, 10, 127, 128, 255, 256, 32767, 32768, 65535, 65536, 8388607,
     8388608, 16777215, 16777216, 2147483647}

RequestKinds == {"get", "get_next", "get_bulk"}

\* get / get_next / get_bulk: the request built for the arguments
BuildRequest(snmpver, kind, oid, max_repetitions, request_id) ==
    /\ codec_pc = "idle"
    /\ (kind = "get_bulk") <=> (max_repetitions # NoMaxRep)
    /\ codec_pc' = "built"
    /\ req' = [snmpver |-> snmpver, version |-> SnmpVersion_from(snmpver),
               kind |-> kind, oid |-> oid,
               max_repetitions |-> max_repetitions]
    /\ pdu' = LET version == effective_version(SnmpVersion_from(snmpver))
              IN CASE kind = "get" ->
                        build_get_pdu(version, Community, oid, request_id)
                   [] kind = "get_next" ->
                        build_getnext_pdu(version, Community, oid, request_id)
                   [] kind = "get_bulk" ->
                        build_getbulk_pdu(version, Community, oid,
                                          max_repetitions, request_id)
    /\ UNCHANGED <<len_in, len_bytes, len_out, int_in, int_out, ticks_out,
                   nonCodecVars>>

\* the request goes to send_receive; the next call starts anew
CodecReturn ==
    /\ codec_pc \in {"built", "read", "parsed"}
    /\ codec_pc' = "idle"
    /\ req' = NoRequest
    /\ pdu' = << >>
    /\ len_in' = 0
    /\ len_bytes' = << >>
    /\ len_out' = NoRead
    /\ int_in' = << >>
    /\ int_out' = NoValue
    /\ ticks_out' = NoValue
    /\ UNCHANGED nonCodecVars

\* the fields of a request, read with the reading helpers of the decoder
RequestFields(data) ==
    LET msg_len == read_length(data, 1)
        version == read_tlv_value(data, msg_len.pos)
        community == read_tlv_value(data, version.pos)
        pdu_tag == read_tag(data, community.pos)
        pdu_len == read_length(data, pdu_tag.pos)
        request_id == read_tlv_value(data, pdu_len.pos)
        third == read_tlv_value(data, request_id.pos)
        fourth == read_tlv_value(data, third.pos)
        vbl_len == read_length(data, fourth.pos + 1)
        vb_len == read_length(data, vbl_len.pos + 1)
        oid == read_tlv_value(data, vb_len.pos)
        value == read_tlv_value(data, oid.pos)
    IN  [outer_tag |-> data[1], msg_len |-> msg_len.val,
         version |-> version.val, community |-> community.val,
         pdu_tag |-> pdu_tag.val, pdu_len |-> pdu_len.val,
         request_id |-> request_id.val,
         third |-> third.val, fourth |-> fourth.val,
         oid |-> oid.val, value |-> value.val, end |-> value.pos]

\* -- lengths --

\* build_pdu: encode_length(&mut buf, len)
EncodeLength(len) ==
    /\ codec_pc = "idle"
    /\ codec_pc' = "encoded"
    /\ len_in' = len
    /\ len_bytes' = encode_length(len)
    /\ UNCHANGED <<req, pdu, len_out, int_in, int_out, ticks_out,
                   nonCodecVars>>

\* read_length at the start of a buffer that holds the length field and a
\* byte after it
ReadLength ==
    /\ codec_pc = "encoded"
    /\ codec_pc' = "read"
    /\ len_out' = read_length(len_bytes \o <<MaxU8>>, 0)
    /\ UNCHANGED <<req, pdu, len_in, len_bytes, int_in, int_out, ticks_out,
                   nonCodecVars>>

\* -- values --
\* An i64 is the record of its sign and of the bytes of its magnitude, the
\* most significant first and not 0: the numbers of 8 bytes are beyond the
\* integers of the model checker.

\* the bytes without the zeros in front
RECURSIVE Strip(_)
Strip(bytes) ==
    IF bytes = << >> THEN << >>
    ELSE IF Head(bytes) = 0 THEN Strip(Tail(bytes))
    ELSE bytes

\* !b of every byte
Complement(bytes) == [i \in DOMAIN bytes |-> MaxU8 - bytes[i]]

\* the bytes plus one, a carry out of the first byte dropped
RECURSIVE Increment(_)
Increment(bytes) ==
    IF bytes = << >> THEN << >>
    ELSE LET n == Len(bytes) IN
         IF bytes[n] < MaxU8 THEN [bytes EXCEPT ![n] = bytes[n] + 1]
         ELSE Append(Increment(SubSeq(bytes, 1, n - 1)), 0)

Some(neg, mag) == [some |-> TRUE, neg |-> neg, mag |-> mag]

\* i8 / i16 / i32 / i64::from_be_bytes(data) as i64
from_be_bytes_signed(data) ==
    IF data[1] >= 128
    THEN Some(TRUE, Strip(Increment(Complement(data))))
    ELSE Some(FALSE, Strip(data))

\* u32::from_be_bytes(data) as i64
from_be_bytes_unsigned(data) == Some(FALSE, Strip(data))

parse_integer(data) ==
    IF Len(data) \in {1, 2, 4, 8} THEN from_be_bytes_signed(data)
    ELSE NoValue

\* Mutant of parse_timeticks: four bytes are read as a signed number.
parse_timeticks_Signed(data) == parse_integer(data)

parse_timeticks(data) ==
    IF Len(data) = 4 THEN from_be_bytes_unsigned(data)
    ELSE parse_integer(data)

\* the content bytes of the values read: every string of up to MaxValueLen
\* bytes and every string of 8 bytes over the bytes at the ends of the
\* signed and unsigned ranges, and one of each other length
ValueBytes == {0, 1, 127, 128, MaxU8}

ValueInputs ==
    UNION {[1..n -> ValueBytes] : n \in 0..MaxValueLen}
    \cup [1..8 -> {0, 128, MaxU8}]
    \cup {[i \in 1..n |-> MaxU8] : n \in 5..9}

\* get_system_info / get_interfaces / get_mac_table: parse_integer and
\* parse_timeticks of the value bytes of a varbind
ParseValue(data) ==
    /\ codec_pc = "idle"
    /\ codec_pc' = "parsed"
    /\ int_in' = data
    /\ int_out' = parse_integer(data)
    /\ ticks_out' = parse_timeticks(data)
    /\ UNCHANGED <<req, pdu, len_in, len_bytes, len_out, nonCodecVars>>

\* the inputs of BuildRequest: every snmpver with every kind of request,
\* every OID with a GET, every max_repetitions with a GETBULK
CodecNext ==
    \/ /\ codec_pc = "idle"
       /\ \E snmpver \in 0..MaxU8, kind \in RequestKinds,
             request_id \in {0, MaxU16} :
            BuildRequest(snmpver, kind, <<1, 3, 6, 1>>,
                         IF kind = "get_bulk" THEN 10 ELSE NoMaxRep,
                         request_id)
    \/ /\ codec_pc = "idle"
       /\ \E oid \in RequestOids :
            BuildRequest(2, "get", oid, NoMaxRep, 12345)
    \/ /\ codec_pc = "idle"
       /\ \E max_repetitions \in MaxRepetitions :
            BuildRequest(2, "get_bulk", <<1, 3, 6, 1>>, max_repetitions, 12345)
    \/ /\ codec_pc = "idle"
       /\ \E len \in 0..MaxLength : EncodeLength(len)
    \/ ReadLength
    \/ /\ codec_pc = "idle"
       /\ \E data \in ValueInputs : ParseValue(data)
    \/ CodecReturn

CodecSpec == Init /\ [][CodecNext]_vars

C25_OidRoundTrip ==
    codec_pc = "built" =>
      LET f == RequestFields(pdu)
          back == decode_oid(f.oid.value)
      IN  /\ f.oid.tag = TagOid
          /\ back.ok
          /\ back.val = req.oid

\* What the code does give: the round trip holds for every OID whose second
\* arc is below 40, whatever the later arcs; under the root 2 with a second
\* arc of 40 or more the first byte is read back as other arcs (the first
\* byte is (arc0 * 40 + arc1) as u8, where X.690 has a base-128 number, and
\* is read back as byte / 40 and byte % 40).
C25_OidRoundTripBelow40 ==
    codec_pc = "built" =>
      LET f == RequestFields(pdu)
          back == decode_oid(f.oid.value)
      IN  /\ f.oid.tag = TagOid
          /\ back.ok
          /\ req.oid[2] < 40 => back.val = req.oid
          /\ req.oid[2] >= 40 =>
               /\ back.val # req.oid
               /\ SubSeq(back.val, 3, Len(back.val))
                    = SubSeq(req.oid, 3, Len(req.oid))


RECURSIVE AddBytes(_, _, _)
AddBytes(a, b, carry) ==
    IF a = << >> THEN <<carry>>
    ELSE LET n == Len(a)
             sum == a[n] + b[n] + carry
         IN  Append(AddBytes(SubSeq(a, 1, n - 1), SubSeq(b, 1, n - 1),
                             sum \div 256),
                    sum % 256)

\* the magnitude with zeros in front, n bytes long
Pad(mag, n) == [i \in 1..(n - Len(mag)) |-> 0] \o mag

\* v is the number the bytes are in two's complement: the bytes read as an
\* unsigned number when the first bit is 0, and that number less 256^n when
\* it is 1 (so that the magnitude of v and the bytes add up to 256^n)
TwosComplementOf(v, data) ==
    LET n == Len(data) IN
    /\ v.some
    /\ IF data[1] < 128
       THEN ~v.neg /\ v.mag = Strip(data)
       ELSE /\ v.neg
            /\ Len(v.mag) <= n
            /\ AddBytes(Pad(v.mag, n), data, 0) = <<1>> \o [i \in 1..n |-> 0]

\* the number of a value of at most two bytes as an integer
SmallNumber(v) == (IF v.neg THEN -1 ELSE 1) * be_length(v.mag, 0, Len(v.mag), 0)

ber_integer(content) ==
    LET n == Len(content)
        first == IF content[1] >= 128 THEN content[1] - 256 ELSE content[1]
    IN  first * 256 ^ (n - 1) + be_length(content, 1, n - 1, 0)

\* the content of a BER INTEGER is of minimal length: one byte, or the
\* first nine bits neither all 0 nor all 1
MinimalInteger(content) ==
    /\ Len(content) >= 1
    /\ Len(content) >= 2 =>
         /\ ~(content[1] = 0 /\ content[2] < 128)
         /\ ~(content[1] = MaxU8 /\ content[2] >= 128)

\* C28: in every GETBULK request the non-repeaters field is the INTEGER 0
\* and the max-repetitions field is an INTEGER of minimal length whose
\* value, read as BER reads it (signed two's complement), is the
\* max_repetitions the caller gave.
C28_MaxRepetitionsReadsBack ==
    (codec_pc = "built" /\ req.kind = "get_bulk") =>
      LET f == RequestFields(pdu) IN
      /\ f.pdu_tag = TagGetBulkRequest
      /\ f.third = [tag |-> TagInteger, value |-> <<0>>]
      /\ f.fourth.tag = TagInteger
      /\ MinimalInteger(f.fourth.value)
      /\ ber_integer(f.fourth.value) = req.max_repetitions

\* What build_pdu does give: the non-repeaters field is 0 and the content
\* of max-repetitions is the unsigned number without zero bytes in front;
\* it reads back as the number given exactly when its first byte is below
\* 128, and as a negative number otherwise (128 is written 02 01 80, -128).
C28_MaxRepetitionsUnsigned ==
    (codec_pc = "built" /\ req.kind = "get_bulk") =>
      LET f == RequestFields(pdu)
          content == f.fourth.value
      IN  /\ f.pdu_tag = TagGetBulkRequest
          /\ f.third = [tag |-> TagInteger, value |-> <<0>>]
          /\ f.fourth.tag = TagInteger
          /\ Len(content) \in 1..4
          /\ Len(content) >= 2 => content[1] # 0
          /\ be_length(content, 0, Len(content), 0) = req.max_repetitions
          /\ content[1] < 128 => ber_integer(content) = req.max_repetitions
          /\ content[1] >= 128 => ber_integer(content) < 0

\* ==== the OSI layers of a device (src/worker/discover.rs, =================
\* ==== src/models/device.rs) ===============================================

\* 1 << i
Pow2(i) == 2 ^ i

\* svc & (1 << i) != 0 on an i64: bit i of the two's complement of svc
\* (\div rounds down and % is never negative, so that -1 has every bit set)
BitSet(svc, i) == (svc \div Pow2(i)) % 2 = 1

\* discover_device:  (0..7).map(|i| if svc & (1 << i) != 0 { '1' } else
\* { '0' }).collect::<String>()  -- the character for i = 0 is pushed first
layers_of_services(svc) ==
    [p \in 1..NumLayers |-> IF BitSet(svc, p - 1) THEN "1" ELSE "0"]

\* sys_info.services.map(..): None stays None
layers_of(sys_services) ==
    IF sys_services.some
    THEN [some |-> TRUE, val |-> layers_of_services(sys_services.val)]
    ELSE NoLayers

\* layers.chars().nth(idx).map_or(false, |c| c == '1'), idx counted from 0
nth_is_one(chars, idx) == idx < Len(chars) /\ chars[idx + 1] = "1"

\* has_layer reading the string from the left (layer 1 first)
has_layer_FromLeft(d, l) ==
    IF l = 0 \/ l > NumLayers
    THEN FALSE
    ELSE IF d.layers.some
         THEN nth_is_one(d.layers.val, l - 1)
         ELSE FALSE

\* Device::has_layer
has_layer(d, l) ==
    IF l = 0 \/ l > NumLayers
    THEN FALSE
    ELSE IF d.layers.some
         THEN LET idx == NumLayers - l
              IN  nth_is_one(d.layers.val, idx)
         ELSE FALSE

\* sys_info.services: None when the get or parse_integer failed, else an i64
SysServices ==
    {NoServices} \cup
    {[some |-> TRUE, val |-> v] : v \in (0 - MaxServices - 1)..MaxServices}

\* the characters of a layers column: a row may hold any text
LayerChars == {"0", "1", "2"}

\* the layers of a Device read from the database or built by a caller
\* (make_test_device): nothing, or a text of up to NumLayers + 1 characters
StoredLayers ==
    {NoLayers} \cup
    {[some |-> TRUE, val |-> v] :
        v \in UNION {[1..n -> LayerChars] : n \in 0..(NumLayers + 1)}}

\* the layer: u8 arguments tried
LayerArgs == 0..(NumLayers + 2) \cup {MaxU8}

\* discover_device builds the Device record from the system information
Discover(sys_services) ==
    /\ layer_pc = "idle"
    /\ services' = sys_services
    /\ dev' = [layers |-> layers_of(sys_services)]
    /\ by_discover' = TRUE
    /\ layer_pc' = "built"
    /\ UNCHANGED <<layer, has_out, nonLayerVars>>

\* a Device comes from a row of the device table
LoadDevice(stored) ==
    /\ layer_pc = "idle"
    /\ services' = NoServices
    /\ dev' = [layers |-> stored]
    /\ by_discover' = FALSE
    /\ layer_pc' = "built"
    /\ UNCHANGED <<layer, has_out, nonLayerVars>>

\* device.has_layer(l)
HasLayer(l) ==
    /\ layer_pc = "built"
    /\ layer' = l
    /\ has_out' = has_layer(dev, l)
    /\ layer_pc' = "asked"
    /\ UNCHANGED <<services, dev, by_discover, nonLayerVars>>

\* the record is dropped
LayerReturn ==
    /\ layer_pc = "asked"
    /\ layer_pc' = "idle"
    /\ services' = NoServices
    /\ dev' = NoDevice
    /\ by_discover' = FALSE
    /\ layer' = 0
    /\ has_out' = FALSE
    /\ UNCHANGED nonLayerVars

LayerNext ==
    \/ /\ layer_pc = "idle"
       /\ \E sys_services \in SysServices : Discover(sys_services)
    \/ /\ layer_pc = "idle"
       /\ \E stored \in StoredLayers : LoadDevice(stored)
    \/ /\ layer_pc = "built"
       /\ \E l \in LayerArgs : HasLayer(l)
    \/ LayerReturn

LayerSpec == Init /\ [][LayerNext]_vars

\* C29: the layers discover puts in the Device record are exactly 7
\* characters, each '0' or '1', and for every i in 0..6 the character at
\* position 6 - i (counted from 0) is '1' exactly when bit i of sysServices
\* is set: layer 7 first, layer 1 last.
C29_LayersMostSignificantFirst ==
    (layer_pc # "idle" /\ by_discover /\ services.some) =>
        /\ dev.layers.some
        /\ Len(dev.layers.val) = NumLayers
        /\ \A p \in 1..Len(dev.layers.val) : dev.layers.val[p] \in {"0", "1"}
        /\ \A i \in 0..(NumLayers - 1) :
             (dev.layers.val[(NumLayers - 1 - i) + 1] = "1")
                 <=> BitSet(services.val, i)

\* what discover does store: 7 characters, each '0' or '1', the character
\* at position i being '1' exactly when bit i is set (layer 1 first)
C29_LayersLeastSignificantFirst ==
    (layer_pc # "idle" /\ by_discover /\ services.some) =>
        /\ dev.layers.some
        /\ Len(dev.layers.val) = NumLayers
        /\ \A p \in 1..Len(dev.layers.val) : dev.layers.val[p] \in {"0", "1"}
        /\ \A i \in 0..(NumLayers - 1) :
             (dev.layers.val[i + 1] = "1") <=> BitSet(services.val, i)

\* has_layer on a record discover built answers for the mirrored layer:
\* has_layer(l) tells whether bit 7 - l of sysServices is set (layer 8 - l)
C29_DiscoveredLayerIsMirrored ==
    (layer_pc = "asked" /\ by_discover /\ services.some
        /\ layer \in 1..NumLayers) =>
        (has_out <=> BitSet(services.val, NumLayers - layer))

\* C30: has_layer(layer) is false for layer 0 and for every layer above 7
\* whatever the bitstring, false for every layer when the device has no
\* bitstring, and for a layer in 1..7 true exactly when the character at
\* position 7 - layer (counted from 0) of the bitstring is '1'.
C30_HasLayer ==
    layer_pc = "asked" =>
        /\ (layer = 0 \/ layer > 7) => ~has_out
        /\ ~dev.layers.some => ~has_out
        /\ (layer \in 1..7 /\ dev.layers.some) =>
             (has_out <=>
                 /\ Len(dev.layers.val) >= (7 - layer) + 1
                 /\ dev.layers.val[(7 - layer) + 1] = "1")

\* the case of test_device_has_layer_2: "0000010" has layer 2
C30_Witness ==
    /\ layer_pc = "asked"
    /\ ~by_discover
    /\ dev.layers = [some |-> TRUE,
                     val |-> <<"0", "0", "0", "0", "0", "1", "0">>]
    /\ layer = 2
    /\ has_out

\* ==== walk: what it collects (src/snmp/client.rs) =========================

\* the OID the next get_next of a walk is called with: the last collected
\* OID, base_oid while nothing is collected
LastCollected ==
    IF results = << >> THEN base_oid ELSE results[Len(results)][1]

\* C39: at every step of walk(base_oid), and in its result, every collected
\* OID has base_oid as a prefix and the collected OIDs strictly increase in
\* lexicographic order, so that no OID appears twice; the GETNEXT request of
\* each step carries the last collected OID (base_oid for the first step),
\* and the response that triggers a stop is not added to the result.
C39_WalkCollectsIncreasing ==
    /\ \A i \in 1..Len(results) :
          /\ starts_with(results[i][1], base_oid)
          /\ i > 1 => OidLess(results[i-1][1], results[i][1])
    /\ \A i, j \in 1..Len(results) :
          i # j => results[i][1] # results[j][1]
    /\ wpc \in {"get_next", "send", "recv"} => current_oid = LastCollected
    /\ (wpc = "caller" /\ exchanges > 0) =>
          /\ walk_ret.value = results
          /\ (last_exchange.ok /\ last_exchange.err = NULL) =>
                /\ Len(received) = Len(results) + 1
                /\ results = SubSeq(received, 1, Len(results))

\* C39 witness: a walk collected two OIDs and returned them when the
\* responder sent the second one again.
C39_Witness ==
    /\ wpc = "caller" /\ walk_ret.ok
    /\ Len(walk_ret.value) = 2 /\ Len(received) = 3
    /\ received[3][1] = walk_ret.value[2][1]
    /\ last_exchange.ok /\ last_exchange.err = NULL

\* ==== layers: discover and has_layer together ==============================

\* C40: for every sysServices value s and every layer L in 1..7, after
\* discover has stored the bitstring it derives from s, has_layer(L) on the
\* stored device is true exactly when bit L-1 of s is set (so that macwalk
\* polls the devices that advertised layer 2 and arpwalk those that
\* advertised layer 3).
C40_DiscoveredHasLayer ==
    (layer_pc = "asked" /\ by_discover /\ services.some
        /\ layer \in 1..NumLayers) =>
        (has_out <=> BitSet(services.val, layer - 1))

\* ==== the queue when every database call succeeds (src/backend/manager.rs,
\* ==== src/db/queries.rs) ==================================================

\* The worker that is never aborted.
Survivor == 1

\* One step of run_worker in which no database call fails: dequeue_job
\* returns Ok, the routine meets no database error, complete_job returns Ok.
WorkerStep(w) ==
    \/ DequeueStmt(w)
    \/ DequeueCommit(w)
    \/ Wake(w)
    \/ RoutineStart(w)
    \/ \E ip \in Devices : DeleteStmt(w, ip)
    \/ RoutineEnd(w) /\ result'[w].log # "database error"
    \/ Complete(w) /\ lastdb'[w] = "ok"
    \/ LoopBack(w)

LiveNext ==
    \/ Tick /\ UNCHANGED otherVars
    \/ \E q \in EnqueueRequests : EnqueueStmt(q[1], q[2]) /\ UNCHANGED otherVars
    \/ \E i \in inflight : EnqueueCommit(i) /\ UNCHANGED otherVars
    \/ \E w \in Workers : WorkerStep(w) /\ UNCHANGED otherVars
    \/ \E w \in Workers \ {Survivor} : Abort(w) /\ UNCHANGED otherVars

\* run_worker is a loop of awaits on the tokio runtime: a worker task that is
\* not aborted takes its next step (the sleep ends, a statement returns, the
\* routine returns or the deadline passes).
LiveSpec ==
    /\ Init
    /\ [][LiveNext]_vars
    /\ \A w \in Workers : WF_vars(WorkerStep(w) /\ UNCHANGED otherVars)

\* C38: with a worker that is never aborted, weak fairness on the workers'
\* steps and every database call succeeding, every job that is enqueued,
\* whatever its action, is eventually claimed and eventually has status done
\* or error in the queue.
C38_EveryJobFinishes ==
    \A j \in JobIds :
        (j \in DOMAIN admin /\ admin[j].status = "queued") ~>
            (dequeued[j] > 0 /\ j \in DOMAIN admin
                /\ admin[j].status \in Finished)

\* a row left running by a worker that was aborted after its dequeue
\* statement was sent: no worker task holds it
Abandoned(j) ==
    /\ j \in DOMAIN admin
    /\ admin[j].status = "running"
    /\ \A w \in Workers : job[w].job # j /\ claim[w].job # j

\* What holds: a queued job is eventually finished, or was left
\* running by a worker that was aborted, or its row was deleted (by
\* delete_device) before it finished.
C38_FinishedAbandonedOrDeleted ==
    \A j \in JobIds :
        (j \in DOMAIN admin /\ admin[j].status = "queued") ~>
            \/ j \in DOMAIN admin /\ admin[j].status \in Finished
            \/ Abandoned(j)
            \/ j \notin DOMAIN admin

\* ==== get_system_info (src/snmp/client.rs) ================================

\* src/snmp/oids.rs: SYS_DESCR, SYS_OBJECT_ID, SYS_UPTIME, SYS_CONTACT,
\* SYS_NAME, SYS_LOCATION, SYS_SERVICES, in the order get_system_info asks
SysOids ==
    [i \in 1..7 |-> <<1, 3, 6, 1, 2, 1, 1, i>>]

\* the fields of SystemInfo, in the same order
SysFields ==
    <<"description", "object_id", "uptime", "contact", "name", "location",
      "services">>

\* the value bytes a GET can return: a letter, four FF bytes, three bytes
SysValues == {<<72>>, <<MaxU8, MaxU8, MaxU8, MaxU8>>, <<0, 0, 1>>}

\* Result<Vec<u8>> of SnmpClient::get: Err (the exchange failed, the response
\* did not decode or held no varbind) or Ok(value)
GetAnswers ==
    {[ok |-> FALSE, value |-> << >>]} \cup
    {[ok |-> TRUE, value |-> v] : v \in SysValues}

\* String::from_utf8_lossy(&v).to_string(): ASCII bytes are kept, a byte
\* that is no UTF-8 becomes U+FFFD
from_utf8_lossy(v) == [i \in DOMAIN v |-> IF v[i] < 128 THEN v[i] ELSE 65533]

\* self.get(..).ok().map(|v| String::from_utf8_lossy(&v).to_string())
text_of(answer) ==
    IF answer.ok
    THEN [some |-> TRUE, val |-> from_utf8_lossy(answer.value)]
    ELSE [some |-> FALSE, val |-> << >>]

\* the SystemInfo literal of get_system_info
SystemInfo(answers) ==
    [description |-> text_of(answers[1]),
     object_id   |-> text_of(answers[2]),
     uptime      |-> IF answers[3].ok THEN parse_timeticks(answers[3].value)
                     ELSE NoValue,
     contact     |-> text_of(answers[4]),
     name        |-> text_of(answers[5]),
     location    |-> text_of(answers[6]),
     services    |-> IF answers[7].ok THEN parse_integer(answers[7].value)
                     ELSE NoValue]

\* Mutant of get_system_info: self.get(..)? for self.get(..).ok(), the first
\* failed GET fails the call.
get_system_info_Propagate(answers) ==
    IF \E i \in 1..7 : ~answers[i].ok
    THEN NoSysInfo
    ELSE [ok |-> TRUE, info |-> SystemInfo(answers)]

\* SnmpClient::get_system_info, given what its seven get calls return
get_system_info(answers) == [ok |-> TRUE, info |-> SystemInfo(answers)]

\* get_system_info is called: seven get calls in a row, then the result
GetSystemInfo(answers) ==
    /\ si_pc = "idle"
    /\ si_gets' = SysOids
    /\ si_answers' = answers
    /\ si_ret' = get_system_info(answers)
    /\ si_pc' = "returned"
    /\ UNCHANGED nonInfoVars

\* the caller drops the result
InfoReturn ==
    /\ si_pc = "returned"
    /\ si_pc' = "idle"
    /\ si_gets' = << >>
    /\ si_answers' = << >>
    /\ si_ret' = NoSysInfo
    /\ UNCHANGED nonInfoVars

InfoNext ==
    \/ /\ si_pc = "idle"
       /\ \E answers \in [1..7 -> GetAnswers] : GetSystemInfo(answers)
    \/ InfoReturn

InfoSpec == Init /\ [][InfoNext]_vars

\* the fields read as numbers, and the lengths parse_integer and
\* parse_timeticks decode
NumberFields == {"uptime", "services"}
DecodableLengths == {1, 2, 4, 8}

\* C37: get_system_info always returns success; each of the seven system
\* fields is fetched by its own GET, and a field whose exchange fails or
\* whose value cannot be decoded is absent in the result without affecting the
\* other six: a field is present exactly when its own GET succeeded with a
\* value that decodes.
C37_SystemInfoBestEffort ==
    si_pc = "returned" =>
        /\ si_ret.ok
        /\ Len(si_gets) = 7
        /\ \A i \in 1..7 :
              /\ si_gets[i] = <<1, 3, 6, 1, 2, 1, 1, i>>
              /\ si_ret.info[SysFields[i]].some <=>
                    /\ si_answers[i].ok
                    /\ SysFields[i] \in NumberFields =>
                          Len(si_answers[i].value) \in DecodableLengths
        /\ \A f \in {"description", "object_id", "contact", "name", "location"} :
              si_ret.info[f].some => Len(si_ret.info[f].val) >= 1

\* C37 witness: the GET of sysDescr failed and sysServices came back with
\* three bytes; both are absent and the other five fields are present.
C37_Witness ==
    /\ si_pc = "returned" /\ si_ret.ok
    /\ ~si_answers[1].ok
    /\ si_answers[7] = [ok |-> TRUE, value |-> <<0, 0, 1>>]
    /\ {f \in DOMAIN si_ret.info : ~si_ret.info[f].some}
          = {"description", "services"}

\* ==== job actions at the API and in the dispatch (src/web/auth.rs, ========
\* ==== src/web/api.rs, src/backend/manager.rs) =============================

\* auth.rs: const VALID_JOB_ACTIONS
VALID_JOB_ACTIONS ==
    {"discover", "discoverall", "macsuck", "macwalk",
     "arpnip", "arpwalk", "nbtstat", "nbtwalk",
     "expire", "delete", "portcontrol", "portname",
     "portvlan", "power", "graph", "show", "stats"}

\* Mutant of is_valid_job_action: every action is let through.
is_valid_job_action_Any(action) == TRUE

\* auth.rs: is_valid_job_action
is_valid_job_action(action) == action \in VALID_JOB_ACTIONS

\* the match arms of execute_job that name an action (every arm but `_`)
DispatchArms ==
    {"discover", "discoverall", "macsuck", "macwalk", "arpnip", "arpwalk",
     "nbtstat", "nbtwalk", "expire", "delete", "portcontrol", "portname",
     "portvlan", "power", "graph", "show", "stats", "linter"}

\* action strings outside every list; "" is what a NULL action column gives
OtherActions == {"", "bogus", "Discover", "linters"}

RequestActions == DispatchArms \cup OtherActions

\* api_enqueue_job: the response to POST /queue
api_enqueue_job(is_admin, action, db_ok) ==
    IF ~is_admin THEN "Forbidden"
    ELSE IF ~is_valid_job_action(action) THEN "BadRequest"
    ELSE IF db_ok THEN "Ok" ELSE "InternalServerError"

\* POST /queue is handled: the job is enqueued when the response is Ok
ApiEnqueueJob(is_admin, action, device, db_ok) ==
    /\ api_pc = "idle"
    /\ api_req' = [action |-> action, device |-> device, via |-> "api",
                   admin |-> is_admin]
    /\ api_resp' = api_enqueue_job(is_admin, action, db_ok)
    /\ api_pc' = IF api_resp' = "Ok" THEN "queued" ELSE "responded"
    /\ UNCHANGED <<api_job, nonApiVars>>

\* a row of admin that did not come through the API (the scheduler's
\* enqueue_job calls, or another program writing to the table)
InsertedJob(action, device) ==
    /\ api_pc = "idle"
    /\ api_req' = [action |-> action, device |-> device, via |-> "table",
                   admin |-> FALSE]
    /\ api_pc' = "queued"
    /\ UNCHANGED <<api_resp, api_job, nonApiVars>>

\* run_worker takes the job: execute_job dispatches on its action and
\* complete_job records the outcome
RunJob ==
    /\ api_pc = "queued"
    /\ \E r \in execute_job(api_req.action, api_req.device) :
          api_job' = [status |-> CompleteArgs(r)[1].status,
                      log |-> CompleteArgs(r)[1].log]
    /\ api_pc' = "finished"
    /\ UNCHANGED <<api_req, api_resp, nonApiVars>>

ApiReturn ==
    /\ api_pc \in {"responded", "finished"}
    /\ api_pc' = "idle"
    /\ api_req' = NoApiReq
    /\ api_resp' = NULL
    /\ api_job' = NoApiJob
    /\ UNCHANGED nonApiVars

ApiNext ==
    \/ /\ api_pc = "idle"
       /\ \E is_admin \in BOOLEAN, action \in RequestActions,
             device \in {NULL} \cup Devices, db_ok \in BOOLEAN :
             ApiEnqueueJob(is_admin, action, device, db_ok)
    \/ /\ api_pc = "idle"
       /\ \E action \in RequestActions, device \in {NULL} \cup Devices :
             InsertedJob(action, device)
    \/ RunJob
    \/ ApiReturn

ApiSpec == Init /\ [][ApiNext]_vars

\* the action names of the vocabulary
Vocabulary ==
    {"discover", "discoverall", "macsuck", "macwalk", "arpnip", "arpwalk",
     "nbtstat", "nbtwalk", "expire", "delete", "portcontrol", "portname",
     "portvlan", "power", "graph", "show", "stats", "linter"}

\* the dispatch of execute_job took the `_` arm
UnknownToDispatch == api_job.log = "Unknown action: {}"

\* C34: each of the 18 action names of the vocabulary is accepted both at
\* the enqueue API boundary and by the worker's dispatch, and every other
\* action string is rejected: refused at the API boundary, and a job that
\* carries it ends in status error, never done.
C34_VocabularyAcceptedElseRejected ==
    /\ (api_pc # "idle" /\ api_req.via = "api" /\ api_req.admin) =>
          /\ api_req.action \in Vocabulary => api_resp # "BadRequest"
          /\ api_req.action \notin Vocabulary => api_resp = "BadRequest"
    /\ api_pc = "finished" =>
          /\ api_req.action \in Vocabulary => ~UnknownToDispatch
          /\ api_req.action \notin Vocabulary =>
                UnknownToDispatch /\ api_job.status = "error"

\* What holds: the dispatch knows the 18 names and fails every other action
\* with status error; the API lets the 17 names of VALID_JOB_ACTIONS through
\* and refuses every other string, "linter" among them.
C34_DispatchKnowsApiRefusesLinter ==
    /\ (api_pc # "idle" /\ api_req.via = "api" /\ api_req.admin) =>
          (api_resp = "BadRequest" <=>
              api_req.action \notin Vocabulary \ {"linter"})
    /\ api_pc = "finished" =>
          /\ api_req.action \in Vocabulary => ~UnknownToDispatch
          /\ api_req.action \notin Vocabulary =>
                UnknownToDispatch /\ api_job.status = "error"

\* ---- expire (src/worker/expire.rs) ----------------------------------------

Days == 0 .. MaxDay
\* NOW() of the statements of one call: the day after the newest row
ExpireNow == MaxDay + 1

\* rows of device: last_discover is nullable
DeviceRows == [last_discover : Days \cup {NoTime}]
\* rows of node and of node_ip
NodeRows == [active : BOOLEAN, time_last : Days]
\* rows of admin, id -> row, finished set exactly in the finished statuses
AdminRows ==
    <<[status |-> "queued", finished |-> NoTime],
      [status |-> "running", finished |-> NoTime]>>
    \o [d \in 1 .. MaxDay + 1 |-> [status |-> "done", finished |-> d - 1]]
    \o [d \in 1 .. MaxDay + 1 |-> [status |-> "error", finished |-> d - 1]]
\* rows of user_log
UserLogRows == [creation : Days]

\* the databases expire is called on: each table empty or holding every row
ExpireDatabases ==
    {[device |-> d, node |-> n, node_ip |-> i, admin |-> a, user_log |-> u] :
        d \in {{}, DeviceRows}, n \in {{}, NodeRows}, i \in {{}, NodeRows},
        a \in {<< >>, AdminRows}, u \in {{}, UserLogRows}}

\* config.expire_*: each age is one day or more than the oldest row's age
ExpireAges == {1, MaxDay + 1}
ExpireConfigs ==
    [expire_devices : ExpireAges, expire_nodes : ExpireAges,
     expire_nodes_archive : ExpireAges, expire_jobs : ExpireAges,
     expire_userlog : ExpireAges]

\* WHERE last_discover < NOW() - $1::interval (a NULL compares to no row)
ExpireDevicesWhere(rows, at, age) ==
    {r \in rows : r.last_discover # NoTime /\ r.last_discover < at - age}

\* the same statement run on node without its "active = false"
ExpireNodesWhere_AnyActivity(rows, at, age) ==
    {r \in rows : r.time_last < at - age}

\* WHERE active = false AND time_last < NOW() - $1::interval
ExpireNodesWhere(rows, at, age) ==
    {r \in rows : ~r.active /\ r.time_last < at - age}

\* WHERE creation < NOW() - $1::interval
ExpireUserLogWhere(rows, at, age) ==
    {r \in rows : r.creation < at - age}

\* format!("Expired {} ... older than {} days", rows_affected, age)
ExpireMessage(what, count, age) == [what |-> what, count |-> count, age |-> age]

\* expire is called
ExpireCall(cfg, db) ==
    /\ ex_pc = "idle"
    /\ ex_pc' = "device"
    /\ ex_cfg' = cfg
    /\ ex_db' = db
    /\ ex_db0' = db
    /\ ex_messages' = << >>
    /\ ex_ret' = NoExpireRet

\* `.await?` of a statement that failed: expire returns the error, the
\* statements before it stay carried out
ExpireFail ==
    /\ ex_pc \in {"device", "node", "node_ip", "admin", "user_log"}
    /\ ex_pc' = "returned"
    /\ ex_ret' = [ok |-> FALSE, msg |-> << >>]
    /\ UNCHANGED <<ex_cfg, ex_db, ex_db0, ex_messages>>

ExpireDevices ==
    /\ ex_pc = "device"
    /\ LET gone == ExpireDevicesWhere(ex_db.device, ExpireNow, ex_cfg.expire_devices)
       IN  /\ ex_db' = [ex_db EXCEPT !.device = @ \ gone]
           /\ ex_messages' = Append(ex_messages,
                  ExpireMessage("devices", Cardinality(gone), ex_cfg.expire_devices))
    /\ ex_pc' = "node"
    /\ UNCHANGED <<ex_cfg, ex_db0, ex_ret>>

ExpireNodes ==
    /\ ex_pc = "node"
    /\ LET gone == ExpireNodesWhere(ex_db.node, ExpireNow, ex_cfg.expire_nodes_archive)
       IN  /\ ex_db' = [ex_db EXCEPT !.node = @ \ gone]
           /\ ex_messages' = Append(ex_messages,
                  ExpireMessage("archived nodes", Cardinality(gone),
                                ex_cfg.expire_nodes_archive))
    /\ ex_pc' = "node_ip"
    /\ UNCHANGED <<ex_cfg, ex_db0, ex_ret>>

ExpireNodeIps ==
    /\ ex_pc = "node_ip"
    /\ LET gone == ExpireNodesWhere(ex_db.node_ip, ExpireNow, ex_cfg.expire_nodes)
       IN  /\ ex_db' = [ex_db EXCEPT !.node_ip = @ \ gone]
           /\ ex_messages' = Append(ex_messages,
                  ExpireMessage("node_ip records", Cardinality(gone),
                                ex_cfg.expire_nodes))
    /\ ex_pc' = "admin"
    /\ UNCHANGED <<ex_cfg, ex_db0, ex_ret>>

ExpireJobs ==
    /\ ex_pc = "admin"
    /\ LET gone == ExpireJobsWhere(ex_db.admin, ExpireNow, ex_cfg.expire_jobs)
       IN  /\ ex_db' = [ex_db EXCEPT !.admin = Without(@, gone)]
           /\ ex_messages' = Append(ex_messages,
                  ExpireMessage("jobs", Cardinality(gone), ex_cfg.expire_jobs))
    /\ ex_pc' = "user_log"
    /\ UNCHANGED <<ex_cfg, ex_db0, ex_ret>>

\* the last statement, then Ok(messages.join("; "))
ExpireUserLog ==
    /\ ex_pc = "user_log"
    /\ LET gone == ExpireUserLogWhere(ex_db.user_log, ExpireNow, ex_cfg.expire_userlog)
           msgs == Append(ex_messages,
                      ExpireMessage("user_log entries", Cardinality(gone),
                                    ex_cfg.expire_userlog))
       IN  /\ ex_db' = [ex_db EXCEPT !.user_log = @ \ gone]
           /\ ex_messages' = msgs
           /\ ex_ret' = [ok |-> TRUE, msg |-> msgs]
    /\ ex_pc' = "returned"
    /\ UNCHANGED <<ex_cfg, ex_db0>>

ExpireReturn ==
    /\ ex_pc = "returned"
    /\ ex_pc' = "idle"
    /\ ex_cfg' = NoExpireCfg
    /\ ex_db' = NoTables
    /\ ex_db0' = NoTables
    /\ ex_messages' = << >>
    /\ ex_ret' = NoExpireRet

ExpireNext ==
    \/ /\ ex_pc = "idle"
       /\ \E cfg \in ExpireConfigs, db \in ExpireDatabases : ExpireCall(cfg, db)
       /\ UNCHANGED nonExpireVars
    \/ ExpireFail /\ UNCHANGED nonExpireVars
    \/ ExpireDevices /\ UNCHANGED nonExpireVars
    \/ ExpireNodes /\ UNCHANGED nonExpireVars
    \/ ExpireNodeIps /\ UNCHANGED nonExpireVars
    \/ ExpireJobs /\ UNCHANGED nonExpireVars
    \/ ExpireUserLog /\ UNCHANGED nonExpireVars
    \/ ExpireReturn /\ UNCHANGED nonExpireVars

ExpireSpec == Init /\ [][ExpireNext]_vars

\* the age in days of a timestamp when expire runs
AgeOf(t) == ExpireNow - t

GoneJobs == DOMAIN ex_db0.admin \ DOMAIN ex_db.admin

\* the count the summary reports for a category
Reported(what) ==
    {ex_ret.msg[k].count : k \in {n \in DOMAIN ex_ret.msg : ex_ret.msg[n].what = what}}

\* C36: a row that expire deleted is older than the age configured for its
\* category (a device by last_discover, a user-log entry by creation), a
\* deleted node or node_ip is inactive, a deleted job is finished; no row is
\* added or changed; and the summary of a successful call reports for each
\* category the number of rows deleted.
C36_ExpireDeletesOnlyOldRows ==
    ex_pc # "idle" =>
        /\ ex_db.device \subseteq ex_db0.device
        /\ ex_db.node \subseteq ex_db0.node
        /\ ex_db.node_ip \subseteq ex_db0.node_ip
        /\ ex_db.user_log \subseteq ex_db0.user_log
        /\ DOMAIN ex_db.admin \subseteq DOMAIN ex_db0.admin
        /\ \A j \in DOMAIN ex_db.admin : ex_db.admin[j] = ex_db0.admin[j]
        /\ \A r \in ex_db0.device \ ex_db.device :
              r.last_discover # NoTime /\ AgeOf(r.last_discover) > ex_cfg.expire_devices
        /\ \A r \in ex_db0.node \ ex_db.node :
              ~r.active /\ AgeOf(r.time_last) > ex_cfg.expire_nodes_archive
        /\ \A r \in ex_db0.node_ip \ ex_db.node_ip :
              ~r.active /\ AgeOf(r.time_last) > ex_cfg.expire_nodes
        /\ \A j \in GoneJobs :
              /\ ex_db0.admin[j].status \in Finished
              /\ AgeOf(ex_db0.admin[j].finished) > ex_cfg.expire_jobs
        /\ \A r \in ex_db0.user_log \ ex_db.user_log :
              AgeOf(r.creation) > ex_cfg.expire_userlog
        /\ ex_ret.ok =>
              /\ Reported("devices") = {Cardinality(ex_db0.device \ ex_db.device)}
              /\ Reported("archived nodes") = {Cardinality(ex_db0.node \ ex_db.node)}
              /\ Reported("node_ip records") =
                     {Cardinality(ex_db0.node_ip \ ex_db.node_ip)}
              /\ Reported("jobs") = {Cardinality(GoneJobs)}
              /\ Reported("user_log entries") =
                     {Cardinality(ex_db0.user_log \ ex_db.user_log)}

\* a successful expire that deleted a row of every category and kept an old
\* active node, a queued job and a row younger than its threshold
C36_Witness ==
    /\ ex_pc = "returned"
    /\ ex_ret.ok
    /\ ex_db0.device \ ex_db.device # {}
    /\ ex_db0.node \ ex_db.node # {}
    /\ ex_db0.node_ip \ ex_db.node_ip # {}
    /\ GoneJobs # {}
    /\ ex_db0.user_log \ ex_db.user_log # {}
    /\ \E r \in ex_db.node : r.active /\ AgeOf(r.time_last) > ex_cfg.expire_nodes_archive
    /\ \E j \in DOMAIN ex_db.admin : ex_db.admin[j].status = "queued"
    /\ \E r \in ex_db.user_log : AgeOf(r.creation) <= ex_cfg.expire_userlog

\* ---- macsuck_device / arpnip_device (src/worker/macsuck.rs, arpnip.rs) ----

\* interval '5 minutes' of the deactivating UPDATE
StaleWindow == 5

Switches == {"10.0.0.1", "10.0.0.2"}

\* MacEntry values of get_mac_table: vlan is always None
MacEntries ==
    {[mac |-> "00:00:00:00:00:01", bridge_port |-> 1, vlan |-> NULL],
     [mac |-> "00:00:00:00:00:02", bridge_port |-> 2, vlan |-> NULL]}

\* ArpEntry values of get_arp_table: ip is "{}.{}.{}.{}" of the last four
\* arcs of the OID, which are u32
ArpEntries ==
    {[ip |-> <<10, 0, 0, 9>>, mac |-> "00:00:00:00:00:01"],
     [ip |-> <<10, 0, 0, 10>>, mac |-> "00:00:00:00:00:02"],
     [ip |-> <<10, 0, 0, 300>>, mac |-> "00:00:00:00:00:02"]}

\* the sequences of at most MaxEntries elements of a set
ListsOf(S) == UNION {[1 .. n -> S] : n \in 0 .. MaxEntries}

\* entry.ip.parse::<IpAddr>(): dotted quad with every octet in 0..255
ParsesAsIp(text) == \A k \in DOMAIN text : text[k] \in 0 .. MaxU8

\* the conflict target (mac, switch, port, vlan) of upsert_node for an entry
NodeKey(entry, ip) ==
    [mac |-> entry.mac, switch |-> ip,
     port |-> <<"bridge-port-", entry.bridge_port>>, vlan |-> entry.vlan]

\* the conflict target (mac, ip) of upsert_node_ip for an entry
NodeIpKey(entry) == [mac |-> entry.mac, ip |-> entry.ip]

\* INSERT ... ON CONFLICT (key) DO UPDATE SET active = true, time_last = NOW()
Upsert(table, key, at) ==
    [k \in DOMAIN table \cup {key} |->
        IF k = key THEN [active |-> TRUE, time_last |-> at] ELSE table[k]]

\* the deactivating UPDATE of macsuck_device without its "switch = $1"
DeactivateNodes_AllSwitches(table, ip, at) ==
    [k \in DOMAIN table |->
        IF table[k].time_last < at - StaleWindow /\ table[k].active
        THEN [table[k] EXCEPT !.active = FALSE]
        ELSE table[k]]

\* UPDATE node SET active = false WHERE switch = $1
\*   AND time_last < NOW() - interval '5 minutes' AND active = true
DeactivateNodes(table, ip, at) ==
    [k \in DOMAIN table |->
        IF k.switch = ip /\ table[k].time_last < at - StaleWindow /\ table[k].active
        THEN [table[k] EXCEPT !.active = FALSE]
        ELSE table[k]]

\* UPDATE node_ip SET active = false
\*   WHERE time_last < NOW() - interval '5 minutes' AND active = true
DeactivateNodeIps(table, at) ==
    [k \in DOMAIN table |->
        IF table[k].time_last < at - StaleWindow /\ table[k].active
        THEN [table[k] EXCEPT !.active = FALSE]
        ELSE table[k]]

\* stored counted for every entry of the loop, whatever its upsert returned
stored_after_CountAll(stored, outcome) == stored + 1

\* `stored += 1` in the else branch of `if let Err(e) = upsert`
stored_after(stored, outcome) ==
    IF outcome = "stored" THEN stored + 1 ELSE stored

\* the rows a table can hold when the routine is called
RowsAtCall ==
    {[active |-> TRUE, time_last |-> 0], [active |-> TRUE, time_last |-> 1],
     [active |-> FALSE, time_last |-> 0]}

TablesOver(keys) ==
    UNION {[present -> RowsAtCall] : present \in SUBSET keys}

NodeTables == TablesOver({NodeKey(e, sw) : e \in MacEntries, sw \in Switches})
NodeIpTables == TablesOver({NodeIpKey(e) : e \in {a \in ArpEntries : ParsesAsIp(a.ip)}})

\* macsuck_device(ip) or arpnip_device(ip) is called
PollCall(routine, ip, node, node_ip) ==
    /\ pl_pc = "idle"
    /\ pl_pc' = "start"
    /\ pl_routine' = routine
    /\ pl_ip' = ip
    /\ pl_node' = node
    /\ pl_node0' = node
    /\ pl_node_ip' = node_ip
    /\ pl_node_ip0' = node_ip
    /\ pl_clock' = StaleWindow + 1
    /\ UNCHANGED <<pl_entries, pl_done, pl_stored, pl_deact, pl_ret>>

\* the ACL refuses the device, from_config fails or the table walk fails:
\* the routine returns Err before any statement
PollRefused ==
    /\ pl_pc = "start"
    /\ pl_pc' = "returned"
    /\ pl_ret' = [ok |-> FALSE, stored |-> 0, total |-> 0]
    /\ UNCHANGED <<pl_routine, pl_ip, pl_entries, pl_done, pl_stored, pl_node,
                   pl_node0, pl_node_ip, pl_node_ip0, pl_clock, pl_deact>>

\* get_mac_table / get_arp_table returned its entries
PollTable(entries) ==
    /\ pl_pc = "start"
    /\ pl_pc' = "loop"
    /\ pl_entries' = entries
    /\ UNCHANGED <<pl_routine, pl_ip, pl_done, pl_stored, pl_node, pl_node0,
                   pl_node_ip, pl_node_ip0, pl_clock, pl_deact, pl_ret>>

\* the entry of the next iteration of the loop
InLoop == pl_pc = "loop" /\ Len(pl_done) < Len(pl_entries)
Entry == pl_entries[Len(pl_done) + 1]

\* one iteration whose upsert returned Ok
UpsertOk ==
    /\ InLoop
    /\ \/ /\ pl_routine = "macsuck"
          /\ pl_node' = Upsert(pl_node, NodeKey(Entry, pl_ip), pl_clock)
          /\ UNCHANGED pl_node_ip
       \/ /\ pl_routine = "arpnip"
          /\ ParsesAsIp(Entry.ip)
          /\ pl_node_ip' = Upsert(pl_node_ip, NodeIpKey(Entry), pl_clock)
          /\ UNCHANGED pl_node
    /\ pl_done' = Append(pl_done, "stored")
    /\ pl_stored' = stored_after(pl_stored, "stored")
    /\ UNCHANGED <<pl_pc, pl_routine, pl_ip, pl_entries, pl_node0, pl_node_ip0,
                   pl_clock, pl_deact, pl_ret>>

\* one iteration whose upsert returned Err: debug!, next entry
UpsertErr ==
    /\ InLoop
    /\ pl_routine = "arpnip" => ParsesAsIp(Entry.ip)
    /\ pl_done' = Append(pl_done, "failed")
    /\ pl_stored' = stored_after(pl_stored, "failed")
    /\ UNCHANGED <<pl_pc, pl_routine, pl_ip, pl_entries, pl_node, pl_node0,
                   pl_node_ip, pl_node_ip0, pl_clock, pl_deact, pl_ret>>

\* one iteration of arpnip_device whose entry.ip does not parse: no upsert
ArpSkip ==
    /\ InLoop
    /\ pl_routine = "arpnip"
    /\ ~ParsesAsIp(Entry.ip)
    /\ pl_done' = Append(pl_done, "skipped")
    /\ pl_stored' = stored_after(pl_stored, "skipped")
    /\ UNCHANGED <<pl_pc, pl_routine, pl_ip, pl_entries, pl_node, pl_node0,
                   pl_node_ip, pl_node_ip0, pl_clock, pl_deact, pl_ret>>

\* the deactivating UPDATE after the loop, carried out
DeactivateOk ==
    /\ pl_pc = "loop"
    /\ Len(pl_done) = Len(pl_entries)
    /\ \/ /\ pl_routine = "macsuck"
          /\ pl_node' = DeactivateNodes(pl_node, pl_ip, pl_clock)
          /\ UNCHANGED pl_node_ip
       \/ /\ pl_routine = "arpnip"
          /\ pl_node_ip' = DeactivateNodeIps(pl_node_ip, pl_clock)
          /\ UNCHANGED pl_node
    /\ pl_deact' = [result |-> "ok", at |-> pl_clock]
    /\ pl_pc' = "stamp"
    /\ UNCHANGED <<pl_routine, pl_ip, pl_entries, pl_done, pl_stored, pl_node0,
                   pl_node_ip0, pl_clock, pl_ret>>

\* the deactivating UPDATE returned Err: error!, the routine goes on
DeactivateErr ==
    /\ pl_pc = "loop"
    /\ Len(pl_done) = Len(pl_entries)
    /\ pl_deact' = [result |-> "failed", at |-> pl_clock]
    /\ pl_pc' = "stamp"
    /\ UNCHANGED <<pl_routine, pl_ip, pl_entries, pl_done, pl_stored, pl_node,
                   pl_node0, pl_node_ip, pl_node_ip0, pl_clock, pl_ret>>

\* UPDATE device SET last_macsuck / last_arpnip (its error is only logged),
\* then Ok("... stored {} of {} ...")
PollStamp ==
    /\ pl_pc = "stamp"
    /\ pl_pc' = "returned"
    /\ pl_ret' = [ok |-> TRUE, stored |-> pl_stored, total |-> Len(pl_entries)]
    /\ UNCHANGED <<pl_routine, pl_ip, pl_entries, pl_done, pl_stored, pl_node,
                   pl_node0, pl_node_ip, pl_node_ip0, pl_clock, pl_deact>>

\* a minute passes while the routine runs
PollTick ==
    /\ pl_pc \in {"loop", "stamp"}
    /\ pl_clock < MaxMinute
    /\ pl_clock' = pl_clock + 1
    /\ UNCHANGED <<pl_pc, pl_routine, pl_ip, pl_entries, pl_done, pl_stored,
                   pl_node, pl_node0, pl_node_ip, pl_node_ip0, pl_deact, pl_ret>>

PollReturn ==
    /\ pl_pc = "returned"
    /\ pl_pc' = "idle"
    /\ pl_routine' = "macsuck"
    /\ pl_ip' = NULL
    /\ pl_entries' = << >>
    /\ pl_done' = << >>
    /\ pl_stored' = 0
    /\ pl_node' = << >>
    /\ pl_node0' = << >>
    /\ pl_node_ip' = << >>
    /\ pl_node_ip0' = << >>
    /\ pl_clock' = 0
    /\ pl_deact' = NoDeact
    /\ pl_ret' = NoPollRet

PollNext ==
    \/ /\ pl_pc = "idle"
       /\ \E ip \in Switches, node \in NodeTables :
              PollCall("macsuck", ip, node, << >>)
       /\ UNCHANGED nonPollVars
    \/ /\ pl_pc = "idle"
       /\ \E ip \in Switches, node_ip \in NodeIpTables :
              PollCall("arpnip", ip, << >>, node_ip)
       /\ UNCHANGED nonPollVars
    \/ PollRefused /\ UNCHANGED nonPollVars
    \/ /\ pl_pc = "start"
       /\ \E entries \in IF pl_routine = "macsuck" THEN ListsOf(MacEntries)
                                                  ELSE ListsOf(ArpEntries) :
              PollTable(entries)
       /\ UNCHANGED nonPollVars
    \/ UpsertOk /\ UNCHANGED nonPollVars
    \/ UpsertErr /\ UNCHANGED nonPollVars
    \/ ArpSkip /\ UNCHANGED nonPollVars
    \/ DeactivateOk /\ UNCHANGED nonPollVars
    \/ DeactivateErr /\ UNCHANGED nonPollVars
    \/ PollStamp /\ UNCHANGED nonPollVars
    \/ PollTick /\ UNCHANGED nonPollVars
    \/ PollReturn /\ UNCHANGED nonPollVars

PollSpec == Init /\ [][PollNext]_vars

MacsuckCompleted == pl_pc = "returned" /\ pl_ret.ok /\ pl_routine = "macsuck"

\* a row that the deactivating UPDATE's NOW() finds not refreshed within the window
Stale(row) == row.time_last < pl_deact.at - StaleWindow

\* macsuck deactivates only stale rows of its switch, deletes no row and
\* leaves the rows of the other switches as they were
MacsuckTouchesOnlyItsSwitch ==
    pl_routine = "macsuck" /\ pl_pc # "idle" =>
        /\ DOMAIN pl_node0 \subseteq DOMAIN pl_node
        /\ \A k \in DOMAIN pl_node :
              k.switch # pl_ip => k \in DOMAIN pl_node0 /\ pl_node[k] = pl_node0[k]
        /\ \A k \in DOMAIN pl_node0 :
              pl_node0[k].active /\ ~pl_node[k].active =>
                  /\ k.switch = pl_ip
                  /\ pl_deact.result = "ok"
                  /\ pl_node[k] = [pl_node0[k] EXCEPT !.active = FALSE]
                  /\ Stale(pl_node[k])

Ended(outcome) == {n \in DOMAIN pl_done : pl_done[n] = outcome}

\* C32: in macsuck and arpnip a failed upsert, or an ARP entry whose address
\* does not parse, neither stops the loop nor fails the routine: once the
\* table has been read the routine returns Ok, every entry has been
\* processed, every entry whose upsert succeeded is in the table as an
\* active row refreshed by this run, and the summary reports stored = the
\* number of entries whose upsert succeeded and the number of entries returned.
C32_EntryFailuresAbsorbed ==
    /\ pl_pc = "returned" /\ ~pl_ret.ok =>
          pl_done = << >> /\ pl_node = pl_node0 /\ pl_node_ip = pl_node_ip0
    /\ pl_pc \in {"stamp", "returned"} /\ pl_done # << >> =>
          /\ Len(pl_done) = Len(pl_entries)
          /\ pl_stored = Cardinality(Ended("stored"))
          /\ \A n \in Ended("skipped") :
                pl_routine = "arpnip" /\ ~ParsesAsIp(pl_entries[n].ip)
          /\ \A n \in Ended("stored") :
                IF pl_routine = "macsuck"
                THEN LET k == NodeKey(pl_entries[n], pl_ip)
                     IN  /\ k \in DOMAIN pl_node
                         /\ pl_node[k].time_last >= StaleWindow + 1
                ELSE LET k == NodeIpKey(pl_entries[n])
                     IN  /\ k \in DOMAIN pl_node_ip
                         /\ pl_node_ip[k].time_last >= StaleWindow + 1
    /\ pl_pc = "returned" /\ pl_ret.ok =>
          /\ pl_ret.stored = Cardinality(Ended("stored"))
          /\ pl_ret.total = Len(pl_entries)
          /\ Len(pl_done) = Len(pl_entries)

\* an arpnip that skipped an unparseable entry and stored the next one
C32_Witness ==
    /\ pl_pc = "returned"
    /\ pl_ret.ok
    /\ pl_routine = "arpnip"
    /\ pl_done = <<"skipped", "stored">>
    /\ pl_ret.stored = 1
    /\ pl_ret.total = 2

\* a macsuck whose first upsert failed and whose second was stored
MacsuckAfterFailedUpsert ==
    /\ pl_pc = "returned"
    /\ pl_ret.ok
    /\ pl_routine = "macsuck"
    /\ pl_done = <<"failed", "stored">>
    /\ pl_ret.stored = 1

\* ---- discover_all / macwalk / arpwalk (src/worker/discover.rs, macsuck.rs,
\* ---- arpnip.rs) -----------------------------------------------------------

WalkActions == {"discoverall", "macwalk", "arpwalk"}

\* the layers column of the rows: NULL, layer 2, layer 3, layers 2 and 3
WalkLayers ==
    {NoLayers,
     [some |-> TRUE, val |-> <<"0", "0", "0", "0", "0", "1", "0">>],
     [some |-> TRUE, val |-> <<"0", "0", "0", "0", "1", "0", "0">>],
     [some |-> TRUE, val |-> <<"0", "0", "0", "0", "1", "1", "0">>]}

\* the device tables: up to MaxDevices rows, ip = position in ORDER BY dns, ip
DeviceTables ==
    UNION {[1 .. n -> WalkLayers] : n \in 0 .. MaxDevices}

\* limit.unwrap_or(1000) of list_devices
ListLimit == 1000

\* the rows of list_devices(pool, None): the first ListLimit Device values
\* in table order
list_devices(table) ==
    [n \in {k \in DOMAIN table : k <= ListLimit} |->
        [ip |-> n, layers |-> table[n]]]

\* every listed device, whatever the walk
select_devices_All(action, devices) == devices

\* discover_all takes all devices, macwalk those with has_layer(2), arpwalk
\* those with has_layer(3)
select_devices(action, devices) ==
    IF action = "discoverall"
    THEN devices
    ELSE LET wanted(d) == has_layer(d, IF action = "macwalk" THEN 2 ELSE 3)
         IN  SelectSeq(devices, wanted)

\* the walk is called
WalkAllCall(action, table) ==
    /\ wk_pc = "idle"
    /\ wk_pc' = "list"
    /\ wk_action' = action
    /\ wk_table' = table
    /\ UNCHANGED <<wk_selected, wk_calls, wk_success, wk_failed, wk_ret>>

\* db::list_devices(pool, None).await? returned Err
WalkAllListErr ==
    /\ wk_pc = "list"
    /\ wk_pc' = "returned"
    /\ wk_ret' = [NoWalkRet EXCEPT !.ok = FALSE]
    /\ UNCHANGED <<wk_action, wk_table, wk_selected, wk_calls, wk_success, wk_failed>>

\* the device list is read and filtered
WalkAllList ==
    /\ wk_pc = "list"
    /\ wk_pc' = "loop"
    /\ wk_selected' = select_devices(wk_action, list_devices(wk_table))
    /\ UNCHANGED <<wk_action, wk_table, wk_calls, wk_success, wk_failed, wk_ret>>

\* one iteration: the single-device routine returns Ok or Err
WalkAllDevice(ok) ==
    /\ wk_pc = "loop"
    /\ Len(wk_calls) < Len(wk_selected)
    /\ wk_calls' = Append(wk_calls,
                          [ip |-> wk_selected[Len(wk_calls) + 1].ip, ok |-> ok])
    /\ wk_success' = IF ok THEN wk_success + 1 ELSE wk_success
    /\ wk_failed' = IF ~ok /\ wk_action = "discoverall"
                    THEN wk_failed + 1 ELSE wk_failed
    /\ UNCHANGED <<wk_pc, wk_action, wk_table, wk_selected, wk_ret>>

\* after the loop: Ok("... complete: {success}/{total} ...")
WalkAllEnd ==
    /\ wk_pc = "loop"
    /\ Len(wk_calls) = Len(wk_selected)
    /\ wk_pc' = "returned"
    /\ wk_ret' = [ok |-> TRUE, success |-> wk_success,
                  total |-> Len(wk_selected), failed |-> wk_failed]
    /\ UNCHANGED <<wk_action, wk_table, wk_selected, wk_calls, wk_success, wk_failed>>

WalkAllReturn ==
    /\ wk_pc = "returned"
    /\ wk_pc' = "idle"
    /\ wk_action' = NULL
    /\ wk_table' = << >>
    /\ wk_selected' = << >>
    /\ wk_calls' = << >>
    /\ wk_success' = 0
    /\ wk_failed' = 0
    /\ wk_ret' = NoWalkRet

WalkAllNext ==
    \/ /\ wk_pc = "idle"
       /\ \E action \in WalkActions, table \in DeviceTables : WalkAllCall(action, table)
       /\ UNCHANGED nonWalkVars
    \/ WalkAllListErr /\ UNCHANGED nonWalkVars
    \/ WalkAllList /\ UNCHANGED nonWalkVars
    \/ WalkAllDevice(TRUE) /\ UNCHANGED nonWalkVars
    \/ WalkAllDevice(FALSE) /\ UNCHANGED nonWalkVars
    \/ WalkAllEnd /\ UNCHANGED nonWalkVars
    \/ WalkAllReturn /\ UNCHANGED nonWalkVars

WalkAllSpec == Init /\ [][WalkAllNext]_vars

\* the devices the walk is about, among the rows list_devices returns:
\* every one for discover_all, those whose has_layer(2) holds for macwalk,
\* has_layer(3) for arpwalk
SelectedIps ==
    {n \in {k \in DOMAIN wk_table : k <= ListLimit} :
        \/ wk_action = "discoverall"
        \/ wk_action = "macwalk" /\ has_layer([layers |-> wk_table[n]], 2)
        \/ wk_action = "arpwalk" /\ has_layer([layers |-> wk_table[n]], 3)}

CallsOf(n) == {k \in DOMAIN wk_calls : wk_calls[k].ip = n}

\* C33: discoverall, macwalk and arpwalk call the single-device routine
\* exactly once for each selected device and for no other, go on after a
\* device failed, and once the device list has been read return Ok with
\* success = the number of devices whose routine succeeded and total = the
\* number of selected devices; only a failed read of the list returns Err.
C33_WalkVisitsEachSelectedOnce ==
    /\ \A k \in DOMAIN wk_calls :
          wk_calls[k].ip \in SelectedIps /\ Cardinality(CallsOf(wk_calls[k].ip)) = 1
    /\ wk_pc = "returned" /\ ~wk_ret.ok => wk_calls = << >> /\ wk_selected = << >>
    /\ wk_pc = "returned" /\ wk_ret.ok =>
          /\ \A n \in SelectedIps : Cardinality(CallsOf(n)) = 1
          /\ wk_ret.total = Cardinality(SelectedIps)
          /\ wk_ret.success =
                Cardinality({k \in DOMAIN wk_calls : wk_calls[k].ok})
          /\ wk_action = "discoverall" =>
                wk_ret.failed = wk_ret.total - wk_ret.success

\* a macwalk that skipped a device without layer 2, had its first selected
\* device fail and its second succeed
C33_Witness ==
    /\ wk_pc = "returned"
    /\ wk_ret.ok
    /\ wk_action = "macwalk"
    /\ Len(wk_table) > Len(wk_selected)
    /\ Len(wk_calls) = 2
    /\ ~wk_calls[1].ok
    /\ wk_calls[2].ok
    /\ wk_ret.success = 1
    /\ wk_ret.total = 2

\* ---- delete_device (src/db/queries.rs) ------------------------------------

\* the tables of the DELETE statements of delete_device, in their order
DeleteOrder ==
    <<"node", "device_port_vlan", "device_port_power", "device_port_ssid",
      "device_port_wireless", "device_port_log", "device_port", "device_module",
      "device_ip", "device_vlan", "device_power", "device_skip", "admin", "device">>

DeletedDevices == {"10.0.0.1", "10.0.0.2"}

\* a row of `table` whose switch / ip / device column holds `owner`
RowOf(table, owner) == [table |-> table, owner |-> owner]

TableNames(S) == {DeleteOrder[n] : n \in S}

\* the tables in which a device has a row when delete_device is called
Holdings ==
    {{}, TableNames({14}), TableNames({1, 14}), TableNames({1, 7, 13, 14}),
     TableNames({1, 7}), TableNames(DOMAIN DeleteOrder)}

\* the databases delete_device is called on
DeleteDatabases ==
    {UNION {{RowOf(t, d) : t \in held[d]} : d \in DeletedDevices} :
        held \in [DeletedDevices -> Holdings]}

\* DELETE FROM table WHERE switch / ip / device = $1
DeleteWhere(rows, table, ip) == {r \in rows : r.table = table /\ r.owner = ip}

\* the statement run on the pool, outside the transaction
tx_execute_OnPool(committed, pending, gone) ==
    [committed |-> committed \ gone, pending |-> pending]

\* .execute(&mut *tx): the rows are gone for the transaction only
tx_execute(committed, pending, gone) ==
    [committed |-> committed, pending |-> pending \cup gone]

\* delete_device is called and pool.begin() succeeds
DelBegin(ip, db) ==
    /\ dd_pc = "idle"
    /\ dd_pc' = "tx"
    /\ dd_ip' = ip
    /\ dd_step' = 1
    /\ dd_committed' = db
    /\ dd_db0' = db
    /\ dd_pending' = {}
    /\ dd_seen' = db
    /\ dd_ret' = NoDelRet

\* delete_device is called and pool.begin().await? returns Err
DelBeginErr(ip, db) ==
    /\ dd_pc = "idle"
    /\ dd_pc' = "returned"
    /\ dd_ip' = ip
    /\ dd_step' = 0
    /\ dd_committed' = db
    /\ dd_db0' = db
    /\ dd_pending' = {}
    /\ dd_seen' = db
    /\ dd_ret' = [ok |-> FALSE, failed |-> "begin"]

\* the next DELETE of the transaction is carried out
DelStatement ==
    /\ dd_pc = "tx"
    /\ dd_step \in DOMAIN DeleteOrder
    /\ LET gone == DeleteWhere(dd_committed \ dd_pending, DeleteOrder[dd_step], dd_ip)
           after == tx_execute(dd_committed, dd_pending, gone)
       IN  /\ dd_committed' = after.committed
           /\ dd_pending' = after.pending
    /\ dd_step' = dd_step + 1
    /\ UNCHANGED <<dd_pc, dd_ip, dd_db0, dd_seen, dd_ret>>

\* the next DELETE returns Err: `?` returns, tx is dropped and rolls back
DelStatementErr ==
    /\ dd_pc = "tx"
    /\ dd_step \in DOMAIN DeleteOrder
    /\ dd_pending' = {}
    /\ dd_pc' = "returned"
    /\ dd_ret' = [ok |-> FALSE, failed |-> DeleteOrder[dd_step]]
    /\ UNCHANGED <<dd_ip, dd_step, dd_committed, dd_db0, dd_seen>>

\* tx.commit() succeeds: the deletes become visible together
DelCommit ==
    /\ dd_pc = "tx"
    /\ dd_step = Len(DeleteOrder) + 1
    /\ dd_committed' = dd_committed \ dd_pending
    /\ dd_pending' = {}
    /\ dd_pc' = "returned"
    /\ dd_ret' = [ok |-> TRUE, failed |-> "none"]
    /\ UNCHANGED <<dd_ip, dd_step, dd_db0, dd_seen>>

\* tx.commit().await? returns Err: the server rolled back, or committed and
\* the answer was lost
DelCommitErr(took_effect) ==
    /\ dd_pc = "tx"
    /\ dd_step = Len(DeleteOrder) + 1
    /\ dd_committed' = IF took_effect THEN dd_committed \ dd_pending ELSE dd_committed
    /\ dd_pending' = {}
    /\ dd_pc' = "returned"
    /\ dd_ret' = [ok |-> FALSE, failed |-> "commit"]
    /\ UNCHANGED <<dd_ip, dd_step, dd_db0, dd_seen>>

\* the future is dropped at an await (job timeout, abort): tx rolls back
DelCancelled ==
    /\ dd_pc = "tx"
    /\ dd_pending' = {}
    /\ dd_pc' = "returned"
    /\ dd_ret' = [ok |-> FALSE, failed |-> "cancelled"]
    /\ UNCHANGED <<dd_ip, dd_step, dd_committed, dd_db0, dd_seen>>

\* another connection reads the tables: it sees the committed rows
DelRead ==
    /\ dd_pc \in {"tx", "returned"}
    /\ dd_seen' = dd_committed
    /\ UNCHANGED <<dd_pc, dd_ip, dd_step, dd_committed, dd_db0, dd_pending, dd_ret>>

DelReturn ==
    /\ dd_pc = "returned"
    /\ dd_pc' = "idle"
    /\ dd_ip' = NULL
    /\ dd_step' = 0
    /\ dd_committed' = {}
    /\ dd_db0' = {}
    /\ dd_pending' = {}
    /\ dd_seen' = {}
    /\ dd_ret' = NoDelRet

DelNext ==
    \/ /\ dd_pc = "idle"
       /\ \E ip \in DeletedDevices, db \in DeleteDatabases : DelBegin(ip, db)
       /\ UNCHANGED nonDelVars
    \/ /\ dd_pc = "idle"
       /\ \E ip \in DeletedDevices, db \in DeleteDatabases : DelBeginErr(ip, db)
       /\ UNCHANGED nonDelVars
    \/ DelStatement /\ UNCHANGED nonDelVars
    \/ DelStatementErr /\ UNCHANGED nonDelVars
    \/ DelCommit /\ UNCHANGED nonDelVars
    \/ DelCommitErr(TRUE) /\ UNCHANGED nonDelVars
    \/ DelCommitErr(FALSE) /\ UNCHANGED nonDelVars
    \/ DelCancelled /\ UNCHANGED nonDelVars
    \/ DelRead /\ UNCHANGED nonDelVars
    \/ DelReturn /\ UNCHANGED nonDelVars

DelSpec == Init /\ [][DelNext]_vars

\* the rows of the device being deleted, at the call
RowsOfDevice == {r \in dd_db0 : r.owner = dd_ip}

\* a set of rows is the database of the call with none or all of the
\* device's rows removed
NoneOrAllGone(rows) == rows = dd_db0 \/ rows = dd_db0 \ RowsOfDevice

DeleteFailedHalfway ==
    /\ dd_pc = "returned"
    /\ dd_ret.failed = "device"
    /\ Cardinality(RowsOfDevice) >= 4
    /\ dd_committed = dd_db0

====
